---- MODULE Spec2Model ----
(***************************************************************************)
(* Verification model of planetary-computer-mcp: the query resolver        *)
(* (core/collections.py), the AOI normalizer (core/geocoding.py) and the   *)
(* download_data pipeline (tools/download_data.py).                        *)
(*                                                                         *)
(* Text that the code inspects character by character (queries, keywords,  *)
(* place names) is a sequence of one-character strings, so that Python's   *)
(* substring test `kw in query` is computed, not assumed.  Dataset ids     *)
(* that are only compared for equality are TLA+ strings.                   *)
(* Coordinates are integers in tenths of a degree.                         *)
(***************************************************************************)
EXTENDS Integers, Sequences, FiniteSets, Bags, TLC

(***************************************************************************)
(* Registry tables of core/collections.py.  Python dicts keep insertion    *)
(* order, which the resolver's results depend on, so each dict is a        *)
(* sequence of entries in source order.                                    *)
(***************************************************************************)
COLLECTION_INFO ==
  <<
   [id |-> "sentinel-2-l2a", chars |-> <<"s","e","n","t","i","n","e","l","-","2","-","l","2","a">>,
    name |-> "Sentinel-2 L2A",
    description |-> "10m optical imagery, global, 5-day revisit",
    keywords |-> <<
         <<"s","e","n","t","i","n","e","l","-","2">>,
         <<"s","e","n","t","i","n","e","l">>,
         <<"o","p","t","i","c","a","l">>,
         <<"m","u","l","t","i","s","p","e","c","t","r","a","l">>>>,
    category |-> "optical"],
   [id |-> "landsat-c2-l2", chars |-> <<"l","a","n","d","s","a","t","-","c","2","-","l","2">>,
    name |-> "Landsat Collection 2 L2",
    description |-> "30m optical imagery, global, 16-day revisit",
    keywords |-> <<
         <<"l","a","n","d","s","a","t">>,
         <<"l","a","n","d","s","a","t","-","8">>,
         <<"l","a","n","d","s","a","t","-","9">>>>,
    category |-> "optical"],
   [id |-> "naip", chars |-> <<"n","a","i","p">>,
    name |-> "NAIP Aerial Imagery",
    description |-> "0.6-1m aerial photos, US only, updated every 2-3 years",
    keywords |-> <<
         <<"n","a","i","p">>,
         <<"a","e","r","i","a","l">>,
         <<"h","i","g","h","-","r","e","s","o","l","u","t","i","o","n">>,
         <<"u","s","d","a">>>>,
    category |-> "optical"],
   [id |-> "sentinel-1-rtc", chars |-> <<"s","e","n","t","i","n","e","l","-","1","-","r","t","c">>,
    name |-> "Sentinel-1 RTC",
    description |-> "10m radar imagery, global, works through clouds",
    keywords |-> <<
         <<"s","e","n","t","i","n","e","l","-","1">>,
         <<"s","a","r">>,
         <<"r","a","d","a","r">>,
         <<"m","i","c","r","o","w","a","v","e">>>>,
    category |-> "sar"],
   [id |-> "cop-dem-glo-30", chars |-> <<"c","o","p","-","d","e","m","-","g","l","o","-","3","0">>,
    name |-> "Copernicus DEM 30m",
    description |-> "30m global elevation model",
    keywords |-> <<
         <<"d","e","m">>,
         <<"e","l","e","v","a","t","i","o","n">>,
         <<"t","e","r","r","a","i","n">>,
         <<"c","o","p","e","r","n","i","c","u","s">>,
         <<"h","e","i","g","h","t">>>>,
    category |-> "elevation"],
   [id |-> "alos-dem", chars |-> <<"a","l","o","s","-","d","e","m">>,
    name |-> "ALOS World 3D DEM",
    description |-> "30m global elevation from JAXA",
    keywords |-> <<
         <<"a","l","o","s">>,
         <<"d","e","m">>,
         <<"e","l","e","v","a","t","i","o","n">>,
         <<"j","a","x","a">>>>,
    category |-> "elevation"],
   [id |-> "esa-worldcover", chars |-> <<"e","s","a","-","w","o","r","l","d","c","o","v","e","r">>,
    name |-> "ESA WorldCover",
    description |-> "10m global land cover classification",
    keywords |-> <<
         <<"w","o","r","l","d","c","o","v","e","r">>,
         <<"l","a","n","d"," ","c","o","v","e","r">>,
         <<"l","a","n","d","c","o","v","e","r">>,
         <<"e","s","a">>,
         <<"c","l","a","s","s","i","f","i","c","a","t","i","o","n">>>>,
    category |-> "land_cover"],
   [id |-> "io-lulc-annual-v02", chars |-> <<"i","o","-","l","u","l","c","-","a","n","n","u","a","l","-","v","0","2">>,
    name |-> "Esri Land Use/Land Cover",
    description |-> "10m annual global land use classification",
    keywords |-> <<
         <<"l","u","l","c">>,
         <<"l","a","n","d"," ","u","s","e">>,
         <<"e","s","r","i">>,
         <<"a","n","n","u","a","l">>>>,
    category |-> "land_cover"],
   [id |-> "gridmet", chars |-> <<"g","r","i","d","m","e","t">>,
    name |-> "gridMET",
    description |-> "4km daily climate data for CONUS (1979-present)",
    keywords |-> <<
         <<"g","r","i","d","m","e","t">>,
         <<"c","l","i","m","a","t","e">>,
         <<"w","e","a","t","h","e","r">>,
         <<"t","e","m","p","e","r","a","t","u","r","e">>,
         <<"p","r","e","c","i","p","i","t","a","t","i","o","n">>,
         <<"c","o","n","u","s">>>>,
    category |-> "climate"],
   [id |-> "terraclimate", chars |-> <<"t","e","r","r","a","c","l","i","m","a","t","e">>,
    name |-> "TerraClimate",
    description |-> "4km monthly climate data, global (1958-present)",
    keywords |-> <<
         <<"t","e","r","r","a","c","l","i","m","a","t","e">>,
         <<"c","l","i","m","a","t","e">>,
         <<"m","o","n","t","h","l","y">>,
         <<"g","l","o","b","a","l">>>>,
    category |-> "climate"],
   [id |-> "daymet-daily-na", chars |-> <<"d","a","y","m","e","t","-","d","a","i","l","y","-","n","a">>,
    name |-> "Daymet Daily",
    description |-> "1km daily weather data for North America",
    keywords |-> <<
         <<"d","a","y","m","e","t">>,
         <<"w","e","a","t","h","e","r">>,
         <<"d","a","i","l","y">>,
         <<"n","o","r","t","h"," ","a","m","e","r","i","c","a">>>>,
    category |-> "climate"],
   [id |-> "ms-buildings", chars |-> <<"m","s","-","b","u","i","l","d","i","n","g","s">>,
    name |-> "Microsoft Building Footprints",
    description |-> "AI-derived building polygons, global coverage",
    keywords |-> <<
         <<"b","u","i","l","d","i","n","g">>,
         <<"b","u","i","l","d","i","n","g","s">>,
         <<"f","o","o","t","p","r","i","n","t">>,
         <<"f","o","o","t","p","r","i","n","t","s">>,
         <<"m","i","c","r","o","s","o","f","t">>>>,
    category |-> "vector"]
  >>

COLLECTION_KEYWORDS ==
  <<
   [keyword |-> <<"s","e","n","t","i","n","e","l","-","1">>, collection |-> "sentinel-1-rtc"],
   [keyword |-> <<"s","e","n","t","i","n","e","l">>, collection |-> "sentinel-2-l2a"],
   [keyword |-> <<"s","e","n","t","i","n","e","l","-","2">>, collection |-> "sentinel-2-l2a"],
   [keyword |-> <<"n","a","i","p">>, collection |-> "naip"],
   [keyword |-> <<"a","e","r","i","a","l">>, collection |-> "naip"],
   [keyword |-> <<"l","a","n","d","s","a","t">>, collection |-> "landsat-c2-l2"],
   [keyword |-> <<"d","e","m">>, collection |-> "cop-dem-glo-30"],
   [keyword |-> <<"e","l","e","v","a","t","i","o","n">>, collection |-> "cop-dem-glo-30"],
   [keyword |-> <<"t","e","r","r","a","i","n">>, collection |-> "cop-dem-glo-30"],
   [keyword |-> <<"c","o","p","e","r","n","i","c","u","s">>, collection |-> "cop-dem-glo-30"],
   [keyword |-> <<"a","l","o","s">>, collection |-> "alos-dem"],
   [keyword |-> <<"l","a","n","d"," ","c","o","v","e","r">>, collection |-> "esa-worldcover"],
   [keyword |-> <<"l","a","n","d","c","o","v","e","r">>, collection |-> "esa-worldcover"],
   [keyword |-> <<"l","u","l","c">>, collection |-> "io-lulc-annual-v02"],
   [keyword |-> <<"l","a","n","d"," ","u","s","e">>, collection |-> "io-lulc-annual-v02"],
   [keyword |-> <<"w","o","r","l","d","c","o","v","e","r">>, collection |-> "esa-worldcover"],
   [keyword |-> <<"b","u","i","l","d","i","n","g">>, collection |-> "ms-buildings"],
   [keyword |-> <<"b","u","i","l","d","i","n","g","s">>, collection |-> "ms-buildings"],
   [keyword |-> <<"f","o","o","t","p","r","i","n","t">>, collection |-> "ms-buildings"],
   [keyword |-> <<"s","a","r">>, collection |-> "sentinel-1-rtc"],
   [keyword |-> <<"r","a","d","a","r">>, collection |-> "sentinel-1-rtc"],
   [keyword |-> <<"g","r","i","d","m","e","t">>, collection |-> "gridmet"],
   [keyword |-> <<"t","e","r","r","a","c","l","i","m","a","t","e">>, collection |-> "terraclimate"],
   [keyword |-> <<"d","a","y","m","e","t">>, collection |-> "daymet-daily-na"],
   [keyword |-> <<"c","l","i","m","a","t","e">>, collection |-> "gridmet"],
   [keyword |-> <<"w","e","a","t","h","e","r">>, collection |-> "gridmet"],
   [keyword |-> <<"t","e","m","p","e","r","a","t","u","r","e">>, collection |-> "gridmet"],
   [keyword |-> <<"p","r","e","c","i","p","i","t","a","t","i","o","n">>, collection |-> "gridmet"]
  >>

AMBIGUOUS_KEYWORDS ==
  <<
   [keyword |-> <<"s","a","t","e","l","l","i","t","e">>,
    collections |-> <<"sentinel-2-l2a", "landsat-c2-l2", "sentinel-1-rtc">>],
   [keyword |-> <<"i","m","a","g","e","r","y">>,
    collections |-> <<"sentinel-2-l2a", "landsat-c2-l2", "naip">>],
   [keyword |-> <<"i","m","a","g","e">>,
    collections |-> <<"sentinel-2-l2a", "landsat-c2-l2", "naip">>],
   [keyword |-> <<"r","e","m","o","t","e"," ","s","e","n","s","i","n","g">>,
    collections |-> <<"sentinel-2-l2a", "landsat-c2-l2", "sentinel-1-rtc">>],
   [keyword |-> <<"o","p","t","i","c","a","l">>,
    collections |-> <<"sentinel-2-l2a", "landsat-c2-l2", "naip">>]
  >>

AVAILABLE_CATEGORIES ==
  <<
   "optical imagery (sentinel-2, landsat, naip)",
   "radar/SAR (sentinel-1)",
   "elevation/DEM (copernicus dem, alos dem)",
   "land cover (esa worldcover, esri lulc)",
   "climate/weather (gridmet, terraclimate, daymet)",
   "building footprints (ms-buildings)"
  >>

COLLECTION_TYPES ==
  <<
   [collection |-> "sentinel-2-l2a", type |-> "raster"],
   [collection |-> "naip", type |-> "raster"],
   [collection |-> "landsat-c2-l2", type |-> "raster"],
   [collection |-> "cop-dem-glo-30", type |-> "raster"],
   [collection |-> "alos-dem", type |-> "raster"],
   [collection |-> "esa-worldcover", type |-> "raster"],
   [collection |-> "io-lulc-annual-v02", type |-> "raster"],
   [collection |-> "sentinel-1-rtc", type |-> "raster"],
   [collection |-> "gridmet", type |-> "zarr"],
   [collection |-> "terraclimate", type |-> "zarr"],
   [collection |-> "daymet-daily-na", type |-> "zarr"],
   [collection |-> "daymet-daily-hi", type |-> "zarr"],
   [collection |-> "daymet-daily-pr", type |-> "zarr"],
   [collection |-> "daymet-monthly-na", type |-> "zarr"],
   [collection |-> "daymet-annual-na", type |-> "zarr"],
   [collection |-> "era5-pds", type |-> "zarr"],
   [collection |-> "ms-buildings", type |-> "vector"]
  >>

(***************************************************************************)
(* String helpers: Python's str.lower() and the substring test `a in b`.   *)
(***************************************************************************)
Lower(ch) ==
  CASE ch = "A" -> "a" [] ch = "D" -> "d" [] ch = "L" -> "l"
    [] ch = "P" -> "p" [] ch = "R" -> "r" [] ch = "S" -> "s"
    [] OTHER -> ch

LowerStr(s) == [i \in 1..Len(s) |-> Lower(s[i])]

Contains(sub, s) ==
  \E i \in 1..(Len(s) - Len(sub) + 1) : SubSeq(s, i, i + Len(sub) - 1) = sub

(***************************************************************************)
(* Dict helpers on the ordered tables.                                     *)
(***************************************************************************)
InfoIds == {COLLECTION_INFO[i].id : i \in 1..Len(COLLECTION_INFO)}

InfoOf(collection_id) ==
  COLLECTION_INFO[CHOOSE i \in 1..Len(COLLECTION_INFO) :
                    COLLECTION_INFO[i].id = collection_id]

InfoName(c) == IF c \in InfoIds THEN InfoOf(c).name ELSE c

InfoDescription(c) == IF c \in InfoIds THEN InfoOf(c).description ELSE ""

IsAmbiguousKey(keyword) ==
  \E i \in 1..Len(AMBIGUOUS_KEYWORDS) : AMBIGUOUS_KEYWORDS[i].keyword = keyword

\* matched_collections is a dict collection -> score, kept as a sequence of
\* [collection, score] records in insertion order.
DictHas(d, c) == \E i \in 1..Len(d) : d[i].collection = c

DictGet(d, c, default) ==
  IF DictHas(d, c)
  THEN d[CHOOSE i \in 1..Len(d) : d[i].collection = c].score
  ELSE default

DictSet(d, c, v) ==
  IF DictHas(d, c)
  THEN [i \in 1..Len(d) |->
          IF d[i].collection = c THEN [collection |-> c, score |-> v] ELSE d[i]]
  ELSE Append(d, [collection |-> c, score |-> v])

\* list(dict.fromkeys(xs)): drop repeats, keep first occurrences in order
RECURSIVE FromKeys(_)
FromKeys(xs) ==
  IF xs = <<>> THEN <<>>
  ELSE LET front == FromKeys(SubSeq(xs, 1, Len(xs) - 1))
           last == xs[Len(xs)]
       IN IF \E i \in 1..Len(front) : front[i] = last
          THEN front ELSE Append(front, last)

\* Variant of Take that keeps the last n elements (xs[-n:]).
TakeLast(xs, n) ==
  SubSeq(xs, IF Len(xs) < n THEN 1 ELSE Len(xs) - n + 1, Len(xs))

\* Variant of Take without the cut.
TakeAll(xs, n) == xs

\* xs[:n]
Take(xs, n) == SubSeq(xs, 1, IF Len(xs) < n THEN Len(xs) ELSE n)

\* Variant of InsertByScore that sorts ascending (reverse=True forgotten).
RECURSIVE InsertByScoreAscending(_, _)
InsertByScoreAscending(sorted, x) ==
  IF sorted = <<>> THEN <<x>>
  ELSE IF sorted[Len(sorted)].score <= x.score THEN Append(sorted, x)
  ELSE Append(InsertByScoreAscending(SubSeq(sorted, 1, Len(sorted) - 1), x),
              sorted[Len(sorted)])

\* sorted(items, key=score, reverse=True): stable, equal scores keep their
\* insertion order
RECURSIVE InsertByScore(_, _)
InsertByScore(sorted, x) ==
  IF sorted = <<>> THEN <<x>>
  ELSE IF sorted[Len(sorted)].score >= x.score THEN Append(sorted, x)
  ELSE Append(InsertByScore(SubSeq(sorted, 1, Len(sorted) - 1), x),
              sorted[Len(sorted)])

RECURSIVE SortedByScoreDesc(_)
SortedByScoreDesc(d) ==
  IF d = <<>> THEN <<>>
  ELSE InsertByScore(SortedByScoreDesc(SubSeq(d, 1, Len(d) - 1)), d[Len(d)])

(***************************************************************************)
(* _score_collection_match                                                 *)
(***************************************************************************)
EXACT_ID_SCORE == 100

RECURSIVE ScoreKeywords(_, _, _, _)
ScoreKeywords(keywords, i, query_lower, id_chars) ==
  IF i > Len(keywords) THEN 0
  ELSE (IF Contains(keywords[i], query_lower)
        THEN (IF keywords[i] = id_chars
              THEN EXACT_ID_SCORE
              ELSE Len(keywords[i]) * 2)
        ELSE 0)
       + ScoreKeywords(keywords, i + 1, query_lower, id_chars)

score_collection_match(query_lower, collection_id) ==
  IF collection_id \notin InfoIds THEN 0
  ELSE LET info == InfoOf(collection_id)
       IN ScoreKeywords(info.keywords, 1, query_lower, info.chars)

(***************************************************************************)
(* detect_collection_from_query, loop by loop                              *)
(***************************************************************************)
\* lines 244-247: ambiguous_matches
RECURSIVE AmbiguousMatches(_, _)
AmbiguousMatches(query_lower, i) ==
  IF i > Len(AMBIGUOUS_KEYWORDS) THEN <<>>
  ELSE (IF Contains(AMBIGUOUS_KEYWORDS[i].keyword, query_lower)
        THEN AMBIGUOUS_KEYWORDS[i].collections
        ELSE <<>>)
       \o AmbiguousMatches(query_lower, i + 1)

\* lines 250-255: matched_collections after the COLLECTION_INFO loop
RECURSIVE InfoMatches(_, _)
InfoMatches(query_lower, n) ==
  IF n = 0 THEN <<>>
  ELSE LET c == COLLECTION_INFO[n].id
           score == score_collection_match(query_lower, c)
           front == InfoMatches(query_lower, n - 1)
       IN IF score > 0 THEN DictSet(front, c, score) ELSE front

\* Variant of KeywordMatches in which a COLLECTION_INFO match also counts as
\* a specific keyword match.
RECURSIVE KeywordMatchesInfoSpecific(_, _)
KeywordMatchesInfoSpecific(query_lower, n) ==
  IF n = 0
  THEN [matched |-> InfoMatches(query_lower, Len(COLLECTION_INFO)),
        specific |-> InfoMatches(query_lower, Len(COLLECTION_INFO)) # <<>>]
  ELSE LET prev == KeywordMatchesInfoSpecific(query_lower, n - 1)
           keyword == COLLECTION_KEYWORDS[n].keyword
           collection_id == COLLECTION_KEYWORDS[n].collection
       IN IF ~ Contains(keyword, query_lower) THEN prev
          ELSE IF IsAmbiguousKey(keyword) THEN prev
          ELSE [matched |-> DictSet(prev.matched, collection_id,
                                    DictGet(prev.matched, collection_id, 0)
                                      + Len(keyword) * 3),
                specific |-> TRUE]

\* Variant of KeywordMatches that starts the second loop from an empty dict,
\* losing the COLLECTION_INFO scores.
RECURSIVE KeywordMatchesReset(_, _)
KeywordMatchesReset(query_lower, n) ==
  IF n = 0
  THEN [matched |-> <<>>, specific |-> FALSE]
  ELSE LET prev == KeywordMatchesReset(query_lower, n - 1)
           keyword == COLLECTION_KEYWORDS[n].keyword
           collection_id == COLLECTION_KEYWORDS[n].collection
       IN IF ~ Contains(keyword, query_lower) THEN prev
          ELSE IF IsAmbiguousKey(keyword) THEN prev
          ELSE [matched |-> DictSet(prev.matched, collection_id,
                                    DictGet(prev.matched, collection_id, 0)
                                      + Len(keyword) * 3),
                specific |-> TRUE]

\* lines 259-268: the COLLECTION_KEYWORDS loop over the first n entries,
\* giving [matched, specific]
RECURSIVE KeywordMatches(_, _)
KeywordMatches(query_lower, n) ==
  IF n = 0
  THEN [matched |-> InfoMatches(query_lower, Len(COLLECTION_INFO)),
        specific |-> FALSE]
  ELSE LET prev == KeywordMatches(query_lower, n - 1)
           keyword == COLLECTION_KEYWORDS[n].keyword
           collection_id == COLLECTION_KEYWORDS[n].collection
       IN IF ~ Contains(keyword, query_lower) THEN prev
          ELSE IF IsAmbiguousKey(keyword) THEN prev
          ELSE [matched |-> DictSet(prev.matched, collection_id,
                                    DictGet(prev.matched, collection_id, 0)
                                      + Len(keyword) * 3),
                specific |-> TRUE]

Suggestion(c) ==
  [collection |-> c, name |-> InfoName(c), description |-> InfoDescription(c)]

MAX_SUGGESTIONS == 3

\* lines 297: close_matches
CloseMatches(sorted_matches, top_score) ==
  SelectSeq(sorted_matches, LAMBDA m : m.score * 10 >= top_score * 6)

\* line 293: the clear-winner test
ClearWinner(sorted_matches) ==
  \/ Len(sorted_matches) = 1
  \/ sorted_matches[1].score * 2 > sorted_matches[2].score * 3

\* The whole function.  outcome is "return" or the name of the exception
\* raised; exit names the statement that ended the call; the other fields
\* are the function's locals at that point.
detect_collection_from_query(q) ==
  LET query_lower == LowerStr(q)
      ambiguous_matches == AmbiguousMatches(query_lower, 1)
      km == KeywordMatches(query_lower, Len(COLLECTION_KEYWORDS))
      matched_collections == km.matched
      specific_keyword_match == km.specific
      sorted_matches == SortedByScoreDesc(matched_collections)
      base == [outcome |-> "pending", exit |-> "none", collection |-> "none",
               suggestions |-> <<>>, available_categories |-> <<>>,
               ambiguous_matches |-> ambiguous_matches,
               matched_collections |-> matched_collections,
               specific_keyword_match |-> specific_keyword_match,
               sorted_matches |-> sorted_matches]
  IN IF ambiguous_matches # <<>> /\ ~ specific_keyword_match
     THEN LET unique_matches == Take(FromKeys(ambiguous_matches), MAX_SUGGESTIONS)
          IN [base EXCEPT !.outcome = "AmbiguousCollectionError",
                          !.exit = "early",
                          !.suggestions =
                             [i \in 1..Len(unique_matches) |->
                                Suggestion(unique_matches[i])]]
     ELSE IF matched_collections # <<>>
     THEN LET top_collection == sorted_matches[1].collection
              top_score == sorted_matches[1].score
          IN IF ClearWinner(sorted_matches)
             THEN [base EXCEPT !.outcome = "return", !.exit = "clear",
                               !.collection = top_collection]
             ELSE LET close_matches == CloseMatches(sorted_matches, top_score)
                      shown == Take(close_matches, MAX_SUGGESTIONS)
                  IN IF Len(close_matches) > 1
                     THEN [base EXCEPT !.outcome = "AmbiguousCollectionError",
                                       !.exit = "close",
                                       !.suggestions =
                                          [i \in 1..Len(shown) |->
                                             Suggestion(shown[i].collection)]]
                     ELSE [base EXCEPT !.outcome = "return",
                                       !.exit = "single",
                                       !.collection = top_collection]
     ELSE [base EXCEPT !.outcome = "NoCollectionMatchError",
                       !.exit = "nomatch",
                       !.available_categories = AVAILABLE_CATEGORIES]

\* Variant of get_collection_type that never consults COLLECTION_TYPES and
\* always answers with the default.
get_collection_type_default(collection_id) == "raster"

\* get_collection_type
get_collection_type(collection_id) ==
  IF \E i \in 1..Len(COLLECTION_TYPES) : COLLECTION_TYPES[i].collection = collection_id
  THEN COLLECTION_TYPES[CHOOSE i \in 1..Len(COLLECTION_TYPES) :
                          COLLECTION_TYPES[i].collection = collection_id].type
  ELSE "raster"
Words ==
  <<<<"s","a","t","e","l","l","i","t","e">>,
    <<"i","m","a","g","e","r","y">>,
    <<"o","p","t","i","c","a","l">>,
    <<"d","a","t","a">>,
    <<"s","e","n","t","i","n","e","l","-","1">>,
    <<"S","A","R">>,
    <<"r","a","d","a","r">>,
    <<"L","a","n","d","s","a","t">>,
    <<"a","e","r","i","a","l">>,
    <<"m","u","l","t","i","s","p","e","c","t","r","a","l">>,
    <<"s","e","n","t","i","n","e","l","-","2","-","l","2","a">>>>

TestQueries ==
  {<<"s","e","n","t","i","n","e","l"," ","i","m","a","g","e","r","y"," ","o","f"," ","l","o","s"," ","a","n","g","e","l","e","s">>,
   <<"r","e","m","o","t","e"," ","s","e","n","s","i","n","g"," ","d","a","t","a">>,
   <<"d","i","g","i","t","a","l"," ","e","l","e","v","a","t","i","o","n"," ","m","o","d","e","l">>,
   <<"m","i","c","r","o","s","o","f","t"," ","b","u","i","l","d","i","n","g","s">>,
   <<"l","a","n","d","c","o","v","e","r"," ","c","l","a","s","s","i","f","i","c","a","t","i","o","n">>,
   <<"g","r","i","d","m","e","t"," ","c","l","i","m","a","t","e"," ","d","a","t","a">>,
   <<"t","e","r","r","a","c","l","i","m","a","t","e"," ","m","o","n","t","h","l","y">>,
   <<"e","s","a"," ","w","o","r","l","d","c","o","v","e","r">>,
   <<"n","a","i","p"," ","a","e","r","i","a","l"," ","p","h","o","t","o","s">>,
   <<"r","a","n","d","o","m"," ","n","o","n","s","e","n","s","e"," ","d","a","t","a">>,
   <<"l","a","n","d"," ","c","o","v","e","r">>,
   <<"b","u","i","l","d","i","n","g","s">>}


(***************************************************************************)
(* Inputs of the resolver: every phrase of at most MaxWords words of       *)
(* Words joined by single spaces, and the prompts of tests/test_prompts.py *)
(***************************************************************************)
MaxWords == 3

RECURSIVE Phrases(_)
Phrases(n) ==
  IF n = 0 THEN {<<>>}
  ELSE IF n = 1 THEN {Words[i] : i \in 1..Len(Words)}
  ELSE {p \o <<" ">> \o Words[i] : p \in Phrases(n - 1), i \in 1..Len(Words)}

Queries == UNION {Phrases(n) : n \in 0..MaxWords} \cup TestQueries


(***************************************************************************)
(* core/geocoding.py.  A box is <<west, south, east, north>> in hundredths *)
(* of a degree.                                                            *)
(***************************************************************************)
LON_LIMIT == 180 * 100

LAT_LIMIT == 90 * 100

\* Variant of validate_bbox whose ordering tests are strict (> for >=), so
\* that a box of zero width or height passes.
validate_bbox_strict(b) ==
  IF Len(b) # 4
  THEN [outcome |-> "ValueError", value |-> <<>>,
        message |-> "Bbox must have 4 elements [west, south, east, north]"]
  ELSE LET west == b[1]  south == b[2]  east == b[3]  north == b[4]
       IN IF west > east
          THEN [outcome |-> "ValueError", value |-> <<>>,
                message |-> "West must be less than east"]
          ELSE IF south > north
          THEN [outcome |-> "ValueError", value |-> <<>>,
                message |-> "South must be less than north"]
          ELSE IF ~ (/\ -LON_LIMIT <= west /\ west <= LON_LIMIT
                     /\ -LON_LIMIT <= east /\ east <= LON_LIMIT)
          THEN [outcome |-> "ValueError", value |-> <<>>,
                message |-> "Longitude must be between -180 and 180"]
          ELSE IF ~ (/\ -LAT_LIMIT <= south /\ south <= LAT_LIMIT
                     /\ -LAT_LIMIT <= north /\ north <= LAT_LIMIT)
          THEN [outcome |-> "ValueError", value |-> <<>>,
                message |-> "Latitude must be between -90 and 90"]
          ELSE [outcome |-> "return", value |-> <<west, south, east, north>>,
                message |-> ""]

\* validate_bbox: the exception raised, or the returned list
validate_bbox(b) ==
  IF Len(b) # 4
  THEN [outcome |-> "ValueError", value |-> <<>>,
        message |-> "Bbox must have 4 elements [west, south, east, north]"]
  ELSE LET west == b[1]  south == b[2]  east == b[3]  north == b[4]
       IN IF west >= east
          THEN [outcome |-> "ValueError", value |-> <<>>,
                message |-> "West must be less than east"]
          ELSE IF south >= north
          THEN [outcome |-> "ValueError", value |-> <<>>,
                message |-> "South must be less than north"]
          ELSE IF ~ (/\ -LON_LIMIT <= west /\ west <= LON_LIMIT
                     /\ -LON_LIMIT <= east /\ east <= LON_LIMIT)
          THEN [outcome |-> "ValueError", value |-> <<>>,
                message |-> "Longitude must be between -180 and 180"]
          ELSE IF ~ (/\ -LAT_LIMIT <= south /\ south <= LAT_LIMIT
                     /\ -LAT_LIMIT <= north /\ north <= LAT_LIMIT)
          THEN [outcome |-> "ValueError", value |-> <<>>,
                message |-> "Latitude must be between -90 and 90"]
          ELSE [outcome |-> "return", value |-> <<west, south, east, north>>,
                message |-> ""]

Abs(x) == IF x < 0 THEN -x ELSE x

\* R^2 * (pi/180)^2 * cos(center_lat) with R = 6371 km: the area, in
\* thousandths of a km2, of a cell of 0.01 x 0.01 degrees whose center
\* latitude is lat200 / 200 degrees.  math.cos is tabulated at the center
\* latitudes of the boxes the model uses.
CellAreaMilli(lat200) ==
  CASE lat200 = 0 -> 1236
    [] lat200 = 6810 -> 1024
    [] lat200 = 7400 -> 987
    [] lat200 = 9525 -> 833

\* calculate_bbox_area_km2, in thousandths of a km2
calculate_bbox_area_km2(b) ==
  LET west == b[1]  south == b[2]  east == b[3]  north == b[4]
  IN Abs(east - west) * CellAreaMilli(south + north) * Abs(north - south)

CACHE_TTL_SECONDS == 24 * 60 * 60

SECONDS_PER_DAY == 24 * 60 * 60

\* _cache_key: " ".join(place_name.lower().split()); the BLAKE2b digest of
\* the normalized name is represented by the normalized name itself
IsSpace(ch) == ch = " "

RECURSIVE CollapseSpaces(_)
CollapseSpaces(s) ==
  IF s = <<>> THEN <<>>
  ELSE LET front == CollapseSpaces(SubSeq(s, 1, Len(s) - 1))
           last == s[Len(s)]
       IN IF IsSpace(last)
          THEN (IF front = <<>> \/ IsSpace(front[Len(front)])
                THEN front ELSE Append(front, last))
          ELSE Append(front, last)

StripRight(s) ==
  IF s # <<>> /\ IsSpace(s[Len(s)]) THEN SubSeq(s, 1, Len(s) - 1) ELSE s

cache_key(place_name) == StripRight(CollapseSpaces(LowerStr(place_name)))

\* Variant of is_cache_valid that still accepts an entry of exactly
\* CACHE_TTL_SECONDS.
is_cache_valid_inclusive(entry, time_now) ==
  (time_now - entry.timestamp) <= CACHE_TTL_SECONDS

\* _is_cache_valid
is_cache_valid(entry, time_now) ==
  (time_now - entry.timestamp) < CACHE_TTL_SECONDS

\* get_default_time_range(days): "<today - days>/<today>", dates as day numbers
\* Variant of get_default_time_range that ignores its argument and looks back
\* the 30 days of the signature's default.
get_default_time_range_30(days, time_now) ==
  LET today == time_now \div SECONDS_PER_DAY
  IN [start |-> today - 30, end |-> today]

\* get_default_time_range: the dates are day numbers
get_default_time_range(days, time_now) ==
  LET today == time_now \div SECONDS_PER_DAY
  IN [start |-> today - days, end |-> today]

(***************************************************************************)
(* tools/download_data.py: constants and planning helpers.  Areas are in   *)
(* thousandths of a km2.                                                   *)
(***************************************************************************)
AOI_WARN_THRESHOLD_KM2 == 100

AOI_REJECT_THRESHOLD_KM2 == 1000

DEFAULT_TIME_RANGE_DAYS == 7

Km2(n) == n * 1000

RESOLUTION_SCALE_THRESHOLDS ==
  <<[threshold |-> 10, scale |-> 1],
    [threshold |-> 50, scale |-> 2],
    [threshold |-> 100, scale |-> 4],
    [threshold |-> 500, scale |-> 8],
    [threshold |-> 1000, scale |-> 16]>>

SEARCH_LIMIT_THRESHOLDS ==
  <<[threshold |-> 10, limit |-> 1],
    [threshold |-> 50, limit |-> 2],
    [threshold |-> 100, limit |-> 5],
    [threshold |-> 500, limit |-> 10],
    [threshold |-> 1000, limit |-> 20]>>

\* get_adaptive_search_limit
get_adaptive_search_limit(aoi_area) ==
  IF \E i \in 1..Len(SEARCH_LIMIT_THRESHOLDS) :
        aoi_area < Km2(SEARCH_LIMIT_THRESHOLDS[i].threshold)
  THEN SEARCH_LIMIT_THRESHOLDS[
         CHOOSE i \in 1..Len(SEARCH_LIMIT_THRESHOLDS) :
           /\ aoi_area < Km2(SEARCH_LIMIT_THRESHOLDS[i].threshold)
           /\ \A j \in 1..(i - 1) :
                 ~ (aoi_area < Km2(SEARCH_LIMIT_THRESHOLDS[j].threshold))].limit
  ELSE SEARCH_LIMIT_THRESHOLDS[Len(SEARCH_LIMIT_THRESHOLDS)].limit

MAX_RESOLUTION_SCALE == 16

\* Variant of resolution_scale whose comparison is turned round.
resolution_scale_reversed(aoi_area) ==
  IF \E i \in 1..Len(RESOLUTION_SCALE_THRESHOLDS) :
        aoi_area >= Km2(RESOLUTION_SCALE_THRESHOLDS[i].threshold)
  THEN RESOLUTION_SCALE_THRESHOLDS[
         CHOOSE i \in 1..Len(RESOLUTION_SCALE_THRESHOLDS) :
           /\ aoi_area >= Km2(RESOLUTION_SCALE_THRESHOLDS[i].threshold)
           /\ \A j \in 1..(i - 1) :
                 ~ (aoi_area >= Km2(RESOLUTION_SCALE_THRESHOLDS[j].threshold))].scale
  ELSE MAX_RESOLUTION_SCALE

\* the for/else loop of _download_raster_data, lines 448-454
resolution_scale(aoi_area) ==
  IF \E i \in 1..Len(RESOLUTION_SCALE_THRESHOLDS) :
        aoi_area <= Km2(RESOLUTION_SCALE_THRESHOLDS[i].threshold)
  THEN RESOLUTION_SCALE_THRESHOLDS[
         CHOOSE i \in 1..Len(RESOLUTION_SCALE_THRESHOLDS) :
           /\ aoi_area <= Km2(RESOLUTION_SCALE_THRESHOLDS[i].threshold)
           /\ \A j \in 1..(i - 1) :
                 ~ (aoi_area <= Km2(RESOLUTION_SCALE_THRESHOLDS[j].threshold))].scale
  ELSE MAX_RESOLUTION_SCALE

\* native pixel size of each collection, in millionths of a degree
NATIVE_RESOLUTIONS ==
  <<[collection |-> "sentinel-2-l2a", resolution |-> 100],
    [collection |-> "landsat-c2-l2", resolution |-> 270],
    [collection |-> "naip", resolution |-> 3],
    [collection |-> "hls2-l30", resolution |-> 270],
    [collection |-> "hls2-s30", resolution |-> 270],
    [collection |-> "modis-09A1-061", resolution |-> 4500],
    [collection |-> "aster-l1t", resolution |-> 140],
    [collection |-> "planet-nicfi", resolution |-> 43],
    [collection |-> "sentinel-1-rtc", resolution |-> 100],
    [collection |-> "sentinel-1-grd", resolution |-> 100],
    [collection |-> "alos-palsar", resolution |-> 113],
    [collection |-> "cop-dem-glo-30", resolution |-> 270],
    [collection |-> "cop-dem-glo-90", resolution |-> 810],
    [collection |-> "copernicus-dem", resolution |-> 270],
    [collection |-> "alos-dem", resolution |-> 270],
    [collection |-> "nasadem", resolution |-> 270],
    [collection |-> "3dep-seamless", resolution |-> 90],
    [collection |-> "esa-worldcover", resolution |-> 100],
    [collection |-> "io-lulc-annual-v02", resolution |-> 100],
    [collection |-> "usda-cdl", resolution |-> 270],
    [collection |-> "usgs-lcmap", resolution |-> 270],
    [collection |-> "nrcan-landcover", resolution |-> 270],
    [collection |-> "esa-cci", resolution |-> 2700],
    [collection |-> "gap", resolution |-> 270],
    [collection |-> "drcog-lulc", resolution |-> 9],
    [collection |-> "chesapeake", resolution |-> 9],
    [collection |-> "gridmet", resolution |-> 36000],
    [collection |-> "terraclimate", resolution |-> 36000],
    [collection |-> "gpm-imerg-hhr", resolution |-> 1000],
    [collection |-> "jrc-gsw", resolution |-> 270],
    [collection |-> "deltares-floods", resolution |-> 810],
    [collection |-> "gnatsgo", resolution |-> 270],
    [collection |-> "io-biodiversity", resolution |-> 100]>>

\* 0.0001 degrees, the default of NATIVE_RESOLUTIONS.get (line 445)
DEFAULT_NATIVE_RESOLUTION == 100

\* line 445: NATIVE_RESOLUTIONS.get(collection, 0.0001)
native_resolution(c) ==
  IF \E i \in 1..Len(NATIVE_RESOLUTIONS) : NATIVE_RESOLUTIONS[i].collection = c
  THEN NATIVE_RESOLUTIONS[
         CHOOSE i \in 1..Len(NATIVE_RESOLUTIONS) :
           NATIVE_RESOLUTIONS[i].collection = c].resolution
  ELSE DEFAULT_NATIVE_RESOLUTION

\* Variant of cloud_cover_collections that lists every optical dataset.
cloud_cover_collections_optical == {"sentinel-2-l2a", "landsat-c2-l2", "naip"}

\* line 398
cloud_cover_collections == {"sentinel-2-l2a", "landsat-c2-l2"}

\* Variant of AoiTooLarge that rejects at the warning threshold.
AoiTooLargeAtWarn(aoi_area) == aoi_area > Km2(AOI_WARN_THRESHOLD_KM2)

\* the AOI gate of download_data, line 314
AoiTooLarge(aoi_area) == aoi_area > Km2(AOI_REJECT_THRESHOLD_KM2)

\* line 321
AoiLarge(aoi_area) == aoi_area > Km2(AOI_WARN_THRESHOLD_KM2)

\* queries of the download_data calls: ambiguous, unknown, optical raster,
\* elevation raster, aerial raster, zarr and vector
CallQueries ==
  {<<"s","a","t","e","l","l","i","t","e"," ","d","a","t","a">>,
   <<"x","y","z","1","2","3">>,
   <<"s","e","n","t","i","n","e","l","-","2"," ","i","m","a","g","e","r","y">>,
   <<"d","e","m">>,
   <<"n","a","i","p">>,
   <<"g","r","i","d","m","e","t">>,
   <<"b","u","i","l","d","i","n","g","s">>}

\* place names; the first two differ only in case and whitespace
Places ==
  {<<"S","e","a","t","t","l","e">>,
   <<" "," ","s","e","a","t","t","l","e"," ">>}

\* caller-supplied boxes: 0.8 km2, 102 km2, 989 km2, 1014 km2 and the
\* western United States; then a box with west >= east
BoxSeattle == <<-12235, 4762, -12234, 4763>>

BoxLosAngeles == <<-11830, 3400, -11820, 3410>>

BoxUnderCap == <<0, -10, 40, 10>>

BoxOverCap == <<0, -10, 41, 10>>

BoxWesternUS == <<-12500, 3200, -11000, 4200>>

ValidBoxes == {BoxSeattle, BoxLosAngeles, BoxUnderCap, BoxOverCap, BoxWesternUS}

InvalidBoxes == {<<-11820, 3400, -11830, 3410>>}

AoiInputs ==
  {[kind |-> "list", box |-> b, place |-> <<>>] : b \in ValidBoxes \cup InvalidBoxes}
  \cup {[kind |-> "str", box |-> <<>>, place |-> p] : p \in Places}
  \cup {[kind |-> "other", box |-> <<>>, place |-> <<>>]}

\* Nominatim's raw "boundingbox" is [south, north, west, east]
RawBoundingBox(b) == <<b[2], b[4], b[1], b[3]>>

\* an answer whose west and east bounds are exchanged
BoxExchanged == <<-12234, 4762, -12235, 4763>>

GeocoderAnswers ==
  {RawBoundingBox(BoxSeattle), RawBoundingBox(BoxWesternUS),
   RawBoundingBox(BoxExchanged)}

NoTimeRange == [start |-> -1, end |-> -1]

CallerTimeRange == [start |-> 19905, end |-> 19935]

TimeRangeInputs == {NoTimeRange, CallerTimeRange}

CloudCoverInputs == {20, 50}

\* inputs of validate_bbox: every list of four of these coordinates, and
\* lists of every other length up to MaxBoxLen
Coordinates == {-18001, -18000, -9001, -9000, 0, 9000, 9001, 18000, 18001}

MaxBoxLen == 5

BoxInputs ==
  [1..4 -> Coordinates]
  \cup UNION {[1..n -> {0, 100}] : n \in (0..MaxBoxLen) \ {4}}

\* bounds of the download_data runs
MaxTicks == 2

MaxItems == 2

MaxCalls == 2

TICK_SECONDS == 12 * 60 * 60

CacheKeys == {cache_key(p) : p \in Places}

NoEntry == [bbox |-> <<>>, place_name |-> <<>>, timestamp |-> -1]

\* resolver run: the query and detect_collection_from_query's result
VARIABLES query, res

\* validate_bbox run: input, result, result of validating the result
VARIABLES bbox_in, vb, vb2

\* download_data: position of the call, its arguments
VARIABLES pc, args

\* download_data: locals
VARIABLES collection, bbox, aoi_area, warnings_list, time_range, used_default_time_range, data_type

\* _download_raster_data: number of items found, planning locals
VARIABLES items, plan

\* how the call ended (status, reason, payload), the collaborator calls it
\* made, and what download_data_tool answered for the last finished call
VARIABLES outcome, io, response

\* geocoding cache file, clock (seconds), number of calls started
VARIABLES cache, now, calls

\* query_geoparquet_by_quadkey / query_geoparquet_from_items: the arguments
\* and the storage they meet, the position of the calling thread, the index
\* of the next partition to list, the files enumerated so far, the futures
\* of the pool, the accumulated frames, the reads started per file, and
\* what the function returned
VARIABLES vin, vpc, qi, all_parquet_files, tasks, all_gdfs, reads, vresult

\* download_geometries_tool: position, arguments, the box, the fetched
\* frame, how download_geometries ended, and the text the tool answers
VARIABLES gpc, gargs, gbbox, regions, gdf, goutcome, gresponse

\* place_to_bbox called by concurrent callers: the cells of the cache file
\* on disk, and each caller's frame
VARIABLES cache_file, lookups

vars ==
  <<query, res, bbox_in, vb, vb2, pc, args, collection, bbox, aoi_area,
    warnings_list, time_range, used_default_time_range, data_type, items,
    plan, outcome, io, response, cache, now, calls, vin, vpc, qi, all_parquet_files,
    tasks, all_gdfs, reads, vresult, gpc, gargs, gbbox, gdf, goutcome,
    gresponse, regions, cache_file, lookups>>

resolverVars == <<query, res>>

bboxVars == <<bbox_in, vb, vb2>>

callVars ==
  <<pc, args, collection, bbox, aoi_area, warnings_list, time_range,
    used_default_time_range, data_type, items, plan, outcome, io, response,
    cache, now, calls>>

NoResult ==
  [outcome |-> "pending", exit |-> "none", collection |-> "none",
   suggestions |-> <<>>, available_categories |-> <<>>,
   ambiguous_matches |-> <<>>, matched_collections |-> <<>>,
   specific_keyword_match |-> FALSE, sorted_matches |-> <<>>]

NoValidation == [outcome |-> "pending", value |-> <<>>, message |-> ""]

NoArgs ==
  [query |-> <<>>, aoi |-> [kind |-> "other", box |-> <<>>, place |-> <<>>],
   time_range |-> NoTimeRange, max_cloud_cover |-> 20]

NoIO ==
  [geocoder |-> 0, cache_reads |-> 0, cache_writes |-> 0, searches |-> 0,
   store_opens |-> 0, pixel_loads |-> 0, file_writes |-> 0]

NoPlan ==
  [cloud_cover |-> -1, search_limit |-> 0, datetime |-> NoTimeRange,
   resolution_scale |-> 0, resolution |-> 0, time_dim |-> "", time_steps |-> 0]

NoOutcome ==
  [status |-> "running", reason |-> "", suggestions |-> <<>>,
   available_categories |-> <<>>, has_suggestion |-> FALSE,
   suggested_days |-> 0,
   raw |-> <<>>, visualization |-> <<>>, animation |-> <<>>,
   warnings |-> <<>>]

vectorVars ==
  <<vin, vpc, qi, all_parquet_files, tasks, all_gdfs, reads, vresult>>

toolVars == <<gpc, gargs, gbbox, regions, gdf, goutcome, gresponse>>

lookupVars == <<cache_file, lookups>>

NoVectorCall ==
  [mode |-> "none", partitions |-> <<>>, storage_options |-> FALSE,
   listing_fails |-> {}, read_fails |-> {}]

NoVectorResult == [status |-> "pending", rows |-> EmptyBag]

VectorIdle ==
  /\ vin = NoVectorCall /\ vpc = "idle" /\ qi = 1
  /\ all_parquet_files = <<>> /\ tasks = <<>> /\ all_gdfs = EmptyBag
  /\ reads = EmptyBag /\ vresult = NoVectorResult

NoToolArgs ==
  [collection |-> "none", aoi |-> [kind |-> "other", box |-> <<>>, place |-> <<>>]]

NoFrame == [cause |-> "none", count |-> 0]

NoToolOutcome == [status |-> "running", reason |-> "", count |-> 0]

ToolIdle ==
  /\ gpc = "idle" /\ gargs = NoToolArgs /\ gbbox = <<>> /\ gdf = NoFrame
  /\ goutcome = NoToolOutcome /\ gresponse = "none" /\ regions = <<>>

\* the callers of place_to_bbox
Callers == {1, 2}

NoLookup ==
  [pc |-> "idle", place_name |-> <<>>, use_cache |-> TRUE, cache |-> <<>>,
   bbox |-> <<>>, written |-> 0, raised |-> "none", overlapped |-> FALSE,
   io |-> [geocoder |-> 0, cache_reads |-> 0, cache_writes |-> 0]]

LookupIdle == cache_file = <<>> /\ lookups = [t \in Callers |-> NoLookup]

ResolverIdle == query = <<>> /\ res = NoResult

BboxIdle == bbox_in = <<>> /\ vb = NoValidation /\ vb2 = NoValidation

CallIdle ==
  /\ pc = "idle" /\ args = NoArgs /\ collection = "none" /\ bbox = <<>>
  /\ aoi_area = 0 /\ warnings_list = <<>> /\ time_range = NoTimeRange
  /\ used_default_time_range = FALSE /\ data_type = "none" /\ items = 0
  /\ plan = NoPlan /\ outcome = NoOutcome /\ io = NoIO /\ response = <<>>
  /\ cache = [k \in CacheKeys |-> NoEntry] /\ now = 0 /\ calls = 0

(***************************************************************************)
(* Resolver run: one call of detect_collection_from_query on any query.    *)
(***************************************************************************)
InitResolve ==
  /\ query \in Queries
  /\ res = NoResult
  /\ BboxIdle /\ CallIdle /\ VectorIdle /\ ToolIdle /\ LookupIdle

DetectCollection ==
  /\ res.outcome = "pending"
  /\ res' = detect_collection_from_query(query)
  /\ UNCHANGED <<query, bboxVars, callVars, vectorVars, toolVars, lookupVars>>

NextResolve == DetectCollection

SpecResolve == InitResolve /\ [][NextResolve]_vars

(***************************************************************************)
(* validate_bbox run: validate any input, then validate what it returned.  *)
(***************************************************************************)
InitBbox ==
  /\ bbox_in \in BoxInputs
  /\ vb = NoValidation /\ vb2 = NoValidation
  /\ ResolverIdle /\ CallIdle /\ VectorIdle /\ ToolIdle /\ LookupIdle

ValidateBbox ==
  /\ vb.outcome = "pending"
  /\ vb' = validate_bbox(bbox_in)
  /\ UNCHANGED <<bbox_in, vb2, resolverVars, callVars, vectorVars, toolVars, lookupVars>>

ValidateAgain ==
  /\ vb.outcome = "return"
  /\ vb2.outcome = "pending"
  /\ vb2' = validate_bbox(vb.value)
  /\ UNCHANGED <<bbox_in, vb, resolverVars, callVars, vectorVars, toolVars, lookupVars>>

NextBbox == ValidateBbox \/ ValidateAgain

SpecBbox == InitBbox /\ [][NextBbox]_vars

(***************************************************************************)
(* download_data, statement by statement.  Each action is one stretch of   *)
(* the function between two collaborator calls; pc forces the source       *)
(* order.  io counts the collaborator calls of the current call.           *)
(***************************************************************************)
Raise(status, reason) ==
  [NoOutcome EXCEPT !.status = status, !.reason = reason]

Bump(counter) == [io EXCEPT ![counter] = @ + 1]

\* a caller invokes download_data(query, aoi, time_range, max_cloud_cover)
Call ==
  /\ pc = "idle"
  /\ calls < MaxCalls
  /\ \E q \in CallQueries, a \in AoiInputs, tr \in TimeRangeInputs,
        mcc \in CloudCoverInputs :
        args' = [query |-> q, aoi |-> a, time_range |-> tr,
                 max_cloud_cover |-> mcc]
  /\ pc' = "resolve"
  /\ calls' = calls + 1
  /\ response' = <<>>
  /\ UNCHANGED <<collection, bbox, aoi_area, warnings_list, time_range,
                 used_default_time_range, data_type, items, plan, outcome, io,
                 cache, now, resolverVars, bboxVars, vectorVars,
                 toolVars, lookupVars>>

\* Variant of download_data_tool with the last handler only: every
\* exception is answered as a generic failure.
download_data_tool_generic(o) ==
  <<[type |-> "text",
     head |-> IF o.status = "return" THEN "Successfully downloaded data:"
              ELSE "Error downloading data:",
     blocks |-> IF o.status # "return" THEN <<>>
                ELSE IF o.warnings # <<>> THEN <<"Warnings:", "Metadata:">>
                ELSE <<"Metadata:">>,
     lines |-> IF o.status = "return" THEN o.warnings ELSE <<>>]>>

\* server.py, download_data_tool: the list of TextContent it returns for
\* the way download_data ended.  A text is its first line up to the colon,
\* the titles of the blocks that follow and the list items of the blocks.
download_data_tool(o) ==
  <<[type |-> "text",
     head |-> CASE o.status = "return" -> "Successfully downloaded data:"
                [] o.status = "NoDataFoundError" -> "No data found:"
                [] o.status = "AmbiguousCollectionError" -> "Ambiguous query:"
                [] o.status = "NoCollectionMatchError" -> "Unknown data type:"
                [] OTHER -> "Error downloading data:",
     blocks |-> CASE o.status = "return" ->
                       IF o.warnings # <<>> THEN <<"Warnings:", "Metadata:">>
                       ELSE <<"Metadata:">>
                  [] o.status = "NoDataFoundError" ->
                       IF o.has_suggestion THEN <<"Suggested action:">>
                       ELSE <<>>
                  [] o.status = "AmbiguousCollectionError" ->
                       <<"Please specify one of these collections:">>
                  [] o.status = "NoCollectionMatchError" ->
                       <<"Available data categories:">>
                  [] OTHER -> <<>>,
     lines |-> CASE o.status = "return" -> o.warnings
                 [] o.status = "NoDataFoundError" ->
                      IF o.has_suggestion THEN <<o.suggested_days>> ELSE <<>>
                 [] o.status = "AmbiguousCollectionError" ->
                      [i \in 1..Len(o.suggestions) |->
                         o.suggestions[i].collection]
                 [] o.status = "NoCollectionMatchError" ->
                      o.available_categories
                 [] OTHER -> <<>>]>>

\* the call is over: its result or exception has gone to download_data_tool,
\* which answers with its text, and the frame is discarded; the cache file
\* and the clock stay
Return ==
  /\ pc = "done"
  /\ pc' = "idle"
  /\ response' = download_data_tool(outcome)
  /\ args' = NoArgs
  /\ collection' = "none" /\ bbox' = <<>> /\ aoi_area' = 0
  /\ warnings_list' = <<>> /\ time_range' = NoTimeRange
  /\ used_default_time_range' = FALSE /\ data_type' = "none"
  /\ items' = 0 /\ plan' = NoPlan /\ outcome' = NoOutcome /\ io' = NoIO
  /\ UNCHANGED <<cache, now, calls, resolverVars, bboxVars, vectorVars,
                 toolVars, lookupVars>>

\* Variant of Resolve that falls back to Sentinel-2 when the query cannot be
\* resolved (the silent default the resolver's docstring rules out).
ResolveDefaulting ==
  /\ pc = "resolve"
  /\ LET r == detect_collection_from_query(args.query)
     IN collection' = IF r.outcome = "return" THEN r.collection
                      ELSE "sentinel-2-l2a"
  /\ pc' = "aoi"
  /\ UNCHANGED <<response, args, bbox, aoi_area, warnings_list, time_range,
                 used_default_time_range, data_type, items, plan, outcome, io,
                 cache, now, calls, resolverVars, bboxVars, vectorVars,
                 toolVars, lookupVars>>

\* line 296: collection = detect_collection_from_query(query)
Resolve ==
  /\ pc = "resolve"
  /\ LET r == detect_collection_from_query(args.query)
     IN IF r.outcome = "return"
        THEN /\ collection' = r.collection
             /\ pc' = "aoi"
             /\ UNCHANGED outcome
        ELSE /\ outcome' = [Raise(r.outcome, r.exit) EXCEPT
                              !.suggestions = r.suggestions,
                              !.available_categories = r.available_categories]
             /\ pc' = "done"
             /\ UNCHANGED collection
  /\ UNCHANGED <<response, args, bbox, aoi_area, warnings_list, time_range,
                 used_default_time_range, data_type, items, plan, io, cache,
                 now, calls, resolverVars, bboxVars, vectorVars,
                 toolVars, lookupVars>>

\* lines 302-303: bbox = validate_bbox(aoi)
AoiBox ==
  /\ pc = "aoi"
  /\ args.aoi.kind = "list"
  /\ LET v == validate_bbox(args.aoi.box)
     IN IF v.outcome = "return"
        THEN /\ bbox' = v.value
             /\ pc' = "area"
             /\ UNCHANGED outcome
        ELSE /\ outcome' = Raise("ValueError", "invalid_bbox")
             /\ pc' = "done"
             /\ UNCHANGED bbox
  /\ UNCHANGED <<response, args, collection, aoi_area, warnings_list, time_range,
                 used_default_time_range, data_type, items, plan, io, cache,
                 now, calls, resolverVars, bboxVars, vectorVars,
                 toolVars, lookupVars>>

\* lines 299-301: bbox = place_to_bbox(aoi), answered from the cache
AoiPlaceCached ==
  /\ pc = "aoi"
  /\ args.aoi.kind = "str"
  /\ LET key == cache_key(args.aoi.place)
     IN /\ cache[key] # NoEntry
        /\ is_cache_valid(cache[key], now)
        /\ bbox' = cache[key].bbox
  /\ io' = Bump("cache_reads")
  /\ pc' = "area"
  /\ UNCHANGED <<response, args, collection, aoi_area, warnings_list, time_range,
                 used_default_time_range, data_type, items, plan, outcome,
                 cache, now, calls, resolverVars, bboxVars, vectorVars,
                 toolVars, lookupVars>>

\* lines 299-301: bbox = place_to_bbox(aoi) on a cache miss: the geocoder is
\* called; its answer is stored in the cache, or the lookup fails
AoiPlaceGeocoded ==
  /\ pc = "aoi"
  /\ args.aoi.kind = "str"
  /\ LET key == cache_key(args.aoi.place)
     IN /\ ~ (cache[key] # NoEntry /\ is_cache_valid(cache[key], now))
        /\ \/ \E bb \in GeocoderAnswers :
                LET box == <<bb[3], bb[1], bb[4], bb[2]>>
                IN /\ bbox' = box
                   /\ cache' = [cache EXCEPT ![key] =
                                  [bbox |-> box, place_name |-> args.aoi.place,
                                   timestamp |-> now]]
                   /\ io' = [io EXCEPT !.cache_reads = @ + 2,
                                       !.geocoder = @ + 1,
                                       !.cache_writes = @ + 1]
                   /\ pc' = "area"
                   /\ UNCHANGED outcome
           \/ /\ outcome' = Raise("ValueError", "geocode_failed")
              /\ io' = [io EXCEPT !.cache_reads = @ + 1, !.geocoder = @ + 1]
              /\ pc' = "done"
              /\ UNCHANGED <<bbox, cache>>
  /\ UNCHANGED <<response, args, collection, aoi_area, warnings_list, time_range,
                 used_default_time_range, data_type, items, plan, now, calls,
                 resolverVars, bboxVars, vectorVars,
                 toolVars, lookupVars>>

\* lines 304-309: neither a string nor a list
AoiOther ==
  /\ pc = "aoi"
  /\ args.aoi.kind = "other"
  /\ outcome' = Raise("TypeError", "aoi_required")
  /\ pc' = "done"
  /\ UNCHANGED <<response, args, collection, bbox, aoi_area, warnings_list, time_range,
                 used_default_time_range, data_type, items, plan, io, cache,
                 now, calls, resolverVars, bboxVars, vectorVars,
                 toolVars, lookupVars>>

\* lines 311-335: the area gate, the large-AOI warning and the default
\* time range
Plan ==
  /\ pc = "area"
  /\ LET area == calculate_bbox_area_km2(bbox)
         large == IF AoiLarge(area) THEN <<"large_aoi">> ELSE <<>>
     IN /\ aoi_area' = area
        /\ IF AoiTooLarge(area)
           THEN /\ outcome' = Raise("ValueError", "aoi_too_large")
                /\ pc' = "done"
                /\ UNCHANGED <<warnings_list, time_range, used_default_time_range>>
           ELSE /\ IF args.time_range = NoTimeRange
                   THEN /\ time_range' =
                             get_default_time_range(DEFAULT_TIME_RANGE_DAYS, now)
                        /\ used_default_time_range' = TRUE
                        /\ warnings_list' = large \o <<"default_time_range">>
                   ELSE /\ time_range' = args.time_range
                        /\ used_default_time_range' = FALSE
                        /\ warnings_list' = large
                /\ pc' = "dispatch"
                /\ UNCHANGED outcome
  /\ UNCHANGED <<response, args, collection, bbox, data_type, items, plan, io, cache,
                 now, calls, resolverVars, bboxVars, vectorVars,
                 toolVars, lookupVars>>

\* lines 337-353: data_type = get_collection_type(collection) and the branch
Dispatch ==
  /\ pc = "dispatch"
  /\ LET t == get_collection_type(collection)
     IN /\ data_type' = t
        /\ IF t = "raster" THEN pc' = "raster_search" /\ UNCHANGED outcome
           ELSE IF t = "zarr" THEN pc' = "zarr_load" /\ UNCHANGED outcome
           ELSE /\ outcome' = Raise("ValueError", "unsupported_data_type")
                /\ pc' = "done"
  /\ UNCHANGED <<response, args, collection, bbox, aoi_area, warnings_list, time_range,
                 used_default_time_range, items, plan, io, cache, now, calls,
                 resolverVars, bboxVars, vectorVars,
                 toolVars, lookupVars>>

Min(a, b) == IF a < b THEN a ELSE b

NO_CLOUD_FILTER == -1

\* Variant of NoDataFound that attaches the retry suggestion also when the
\* caller chose the time range.
NoDataFoundSuggesting(used_default) ==
  [Raise("NoDataFoundError", "no_items") EXCEPT
     !.has_suggestion = TRUE,
     !.suggested_days = DEFAULT_TIME_RANGE_DAYS + 7]

\* lines 415-442: the NoDataFoundError raised when the search finds nothing
NoDataFound(used_default) ==
  LET expanded_days == DEFAULT_TIME_RANGE_DAYS + 7
  IN [Raise("NoDataFoundError", "no_items") EXCEPT
        !.has_suggestion = used_default,
        !.suggested_days = IF used_default THEN expanded_days ELSE 0]

\* _download_raster_data lines 396-442: the catalog search and the no-data
\* exit.  The catalog answers with 0..search_limit items, or the search fails.
RasterSearch ==
  /\ pc = "raster_search"
  /\ LET cloud_cover == IF collection \in cloud_cover_collections
                        THEN args.max_cloud_cover ELSE NO_CLOUD_FILTER
         search_limit == get_adaptive_search_limit(aoi_area)
     IN /\ plan' = [plan EXCEPT !.cloud_cover = cloud_cover,
                                !.search_limit = search_limit,
                                !.datetime = time_range]
        /\ io' = Bump("searches")
        /\ \/ \E n \in 1..Min(search_limit, MaxItems) :
                /\ items' = n
                /\ pc' = "raster_load"
                /\ UNCHANGED outcome
           \/ /\ items' = 0
              /\ outcome' = NoDataFound(used_default_time_range)
              /\ pc' = "done"
           \/ /\ outcome' = Raise("Exception", "search_failed")
              /\ pc' = "done"
              /\ UNCHANGED items
  /\ UNCHANGED <<response, args, collection, bbox, aoi_area, warnings_list, time_range,
                 used_default_time_range, data_type, cache, now, calls,
                 resolverVars, bboxVars, vectorVars,
                 toolVars, lookupVars>>

\* lines 444-479: resolution scaling and the pixel load
RasterLoad ==
  /\ pc = "raster_load"
  /\ plan' = [plan EXCEPT
                !.resolution_scale = resolution_scale(aoi_area),
                !.resolution =
                   native_resolution(collection) * resolution_scale(aoi_area)]
  /\ io' = Bump("pixel_loads")
  /\ \/ pc' = "raster_save" /\ UNCHANGED outcome
     \/ outcome' = Raise("Exception", "load_failed") /\ pc' = "done"
  /\ UNCHANGED <<response, args, collection, bbox, aoi_area, warnings_list, time_range,
                 used_default_time_range, data_type, items, cache, now, calls,
                 resolverVars, bboxVars, vectorVars,
                 toolVars, lookupVars>>

\* lines 482-483: raw_path and vis_path below the output directory, for a
\* collection and the box of the request
raster_paths(c, b) ==
  [raw |-> <<c, "-data.tif">>, visualization |-> <<c, "-visual.jpg">>]

\* lines 481-515 and 355-359: GeoTIFF and JPEG are written, the result is
\* assembled and the warnings are attached
RasterSave ==
  /\ pc = "raster_save"
  /\ io' = [io EXCEPT !.file_writes = @ + 2]
  /\ outcome' = [Raise("return", "raster") EXCEPT
                   !.raw = raster_paths(collection, bbox).raw,
                   !.visualization =
                      raster_paths(collection, bbox).visualization,
                   !.warnings = warnings_list]
  /\ pc' = "done"
  /\ UNCHANGED <<response, args, collection, bbox, aoi_area, warnings_list, time_range,
                 used_default_time_range, data_type, items, plan, cache, now,
                 calls, resolverVars, bboxVars, vectorVars,
                 toolVars, lookupVars>>

\* the longest time axis of a loaded subset
MaxTimeSteps == 4

\* _create_zarr_visualizations: the keys and paths it returns, below the
\* output directory; isel() on a time axis without steps raises IndexError
create_zarr_visualizations(c, time_dim, time_steps) ==
  LET spatial_path == <<c, "-visualization.jpg">>
      animation_path == <<c, "-animation.gif">>
  IN IF time_dim \in {"time", "day"}
     THEN IF time_steps = 0
          THEN [outcome |-> "IndexError", visualization |-> <<>>,
                animation |-> <<>>]
          ELSE [outcome |-> "return", visualization |-> spatial_path,
                animation |-> IF time_steps > 3 THEN animation_path ELSE <<>>]
     ELSE [outcome |-> "return", visualization |-> spatial_path,
           animation |-> <<>>]

\* _download_zarr_data lines 553-561: the store is opened and the subset is
\* loaded; it has data variables or none, or the load fails.  The first
\* data variable of a loaded subset has a time dimension or none, and the
\* requested time range selects 0..MaxTimeSteps of its time steps.
ZarrLoad ==
  /\ pc = "zarr_load"
  /\ io' = Bump("store_opens")
  /\ \/ /\ \E d \in {[time_dim |-> "none", time_steps |-> 0]}
                     \cup [time_dim : {"time", "day"},
                           time_steps : 0..MaxTimeSteps] :
             plan' = [plan EXCEPT !.datetime = time_range,
                                  !.time_dim = d.time_dim,
                                  !.time_steps = d.time_steps]
        /\ pc' = "zarr_save" /\ UNCHANGED outcome
     \/ /\ plan' = [plan EXCEPT !.datetime = time_range]
        /\ \/ outcome' = Raise("ValueError", "no_data_vars")
           \/ outcome' = Raise("Exception", "load_failed")
        /\ pc' = "done"
  /\ UNCHANGED <<response, args, collection, bbox, aoi_area, warnings_list, time_range,
                 used_default_time_range, data_type, items, cache, now,
                 calls, resolverVars, bboxVars, vectorVars,
                 toolVars, lookupVars>>

\* lines 563-584 and 355-359: NetCDF is written, the visualizations are
\* created and merged into the result, the warnings are attached
ZarrSave ==
  /\ pc = "zarr_save"
  /\ LET v == create_zarr_visualizations(collection, plan.time_dim,
                                         plan.time_steps)
     IN IF v.outcome = "return"
        THEN /\ outcome' = [Raise("return", "zarr") EXCEPT
                              !.raw = <<collection, "-data.nc">>,
                              !.visualization = v.visualization,
                              !.animation = v.animation,
                              !.warnings = warnings_list]
             /\ io' = [io EXCEPT !.file_writes =
                                    IF v.animation = <<>> THEN @ + 2 ELSE @ + 3]
        ELSE /\ outcome' = Raise(v.outcome, "empty_time_axis")
             /\ io' = Bump("file_writes")
  /\ pc' = "done"
  /\ UNCHANGED <<response, args, collection, bbox, aoi_area, warnings_list, time_range,
                 used_default_time_range, data_type, items, plan, cache, now,
                 calls, resolverVars, bboxVars, vectorVars,
                 toolVars, lookupVars>>

\* twelve hours pass
Tick ==
  /\ now < MaxTicks * TICK_SECONDS
  /\ now' = now + TICK_SECONDS
  /\ UNCHANGED <<response, pc, args, collection, bbox, aoi_area, warnings_list,
                 time_range, used_default_time_range, data_type, items, plan,
                 outcome, io, cache, calls, resolverVars, bboxVars, vectorVars,
                 toolVars, lookupVars>>

Init ==
  ResolverIdle /\ BboxIdle /\ CallIdle /\ VectorIdle /\ ToolIdle /\ LookupIdle

Next ==
  \/ Call
  \/ Return
  \/ Resolve
  \/ AoiBox
  \/ AoiPlaceCached
  \/ AoiPlaceGeocoded
  \/ AoiOther
  \/ Plan
  \/ Dispatch
  \/ RasterSearch
  \/ RasterLoad
  \/ RasterSave
  \/ ZarrLoad
  \/ ZarrSave
  \/ Tick

Spec == Init /\ [][Next]_vars

(***************************************************************************)
(* Properties of download_data (specification Spec)                        *)
(***************************************************************************)
\* what the resolver answers to each query a call can carry
CallResolution == [q \in CallQueries |-> detect_collection_from_query(q)]

\* a box that breaks one of the AOI constraints (hundredths of a degree)
InvalidBox(b) ==
  \/ Len(b) # 4
  \/ b[1] >= b[3]
  \/ b[2] >= b[4]
  \/ b[1] < -18000 \/ b[1] > 18000 \/ b[3] < -18000 \/ b[3] > 18000
  \/ b[2] < -9000 \/ b[2] > 9000 \/ b[4] < -9000 \/ b[4] > 9000

Unresolvable(q) == CallResolution[q].outcome # "return"

CallStarted == pc \notin {"idle", "resolve"}

NoCatalogOrStoreIO ==
  /\ io.searches = 0 /\ io.store_opens = 0
  /\ io.pixel_loads = 0 /\ io.file_writes = 0

\* C1: query resolution runs first.  Once the resolver has run on an
\* ambiguous or unmatched query the call is over with
\* AmbiguousCollectionError / NoCollectionMatchError and has made no
\* geocoder call, no cache read and no catalog or store call, whatever the
\* AOI argument; and a call with an invalid caller-supplied box is over
\* before any catalog or store call.
C1_ResolutionFirst ==
  /\ (CallStarted /\ Unresolvable(args.query)) =>
        /\ pc = "done"
        /\ outcome.status = CallResolution[args.query].outcome
        /\ outcome.status \in {"AmbiguousCollectionError", "NoCollectionMatchError"}
        /\ io.geocoder = 0 /\ io.cache_reads = 0 /\ io.cache_writes = 0
        /\ NoCatalogOrStoreIO
  /\ (/\ pc \notin {"idle", "resolve", "aoi"}
      /\ args.aoi.kind = "list"
      /\ InvalidBox(args.aoi.box)) =>
        /\ pc = "done"
        /\ outcome.status \in {"AmbiguousCollectionError",
                               "NoCollectionMatchError", "ValueError"}
        /\ NoCatalogOrStoreIO

\* an ambiguous query with a place name whose box is in the cache has ended
C1_Witness ==
  /\ pc = "done"
  /\ outcome.status = "AmbiguousCollectionError"
  /\ args.aoi.kind = "str"
  /\ cache[cache_key(args.aoi.place)] # NoEntry
  /\ is_cache_valid(cache[cache_key(args.aoi.place)], now)

Range(f) == {f[i] : i \in DOMAIN f}

SuggestionIds(r) == [i \in 1..Len(r.suggestions) |-> r.suggestions[i].collection]

Resolved == res.outcome # "pending"

AmbiguousKeys == {AMBIGUOUS_KEYWORDS[i].keyword : i \in 1..Len(AMBIGUOUS_KEYWORDS)}

InfoKeywords == UNION {Range(COLLECTION_INFO[i].keywords) : i \in 1..Len(COLLECTION_INFO)}

FlatKeywords == {COLLECTION_KEYWORDS[i].keyword : i \in 1..Len(COLLECTION_KEYWORDS)}

HasAmbiguousKeyword(q) == \E k \in AmbiguousKeys : Contains(k, LowerStr(q))

\* the dataset keywords found in q
MatchedKeywords(q) == {k \in InfoKeywords \cup FlatKeywords : Contains(k, LowerStr(q))}

QuerySatelliteImagery == <<"s","a","t","e","l","l","i","t","e"," ","i","m","a","g","e","r","y">>

\* C3 as stated: "satellite imagery" raises AmbiguousCollectionError whose
\* suggestions include sentinel-2-l2a, landsat-c2-l2 and naip.
C3_Original ==
  (query = QuerySatelliteImagery /\ Resolved) =>
     /\ res.outcome = "AmbiguousCollectionError"
     /\ {"sentinel-2-l2a", "landsat-c2-l2", "naip"} \subseteq Range(SuggestionIds(res))

\* C3 amended: "satellite imagery" raises AmbiguousCollectionError whose
\* suggestions are sentinel-2-l2a, landsat-c2-l2 and sentinel-1-rtc, in that
\* order; naip, the fourth distinct match, is cut by the cap of 3.
C3_SatelliteImagery ==
  (query = QuerySatelliteImagery /\ Resolved) =>
     /\ res.outcome = "AmbiguousCollectionError"
     /\ SuggestionIds(res) = <<"sentinel-2-l2a", "landsat-c2-l2", "sentinel-1-rtc">>
     /\ "naip" \in Range(res.ambiguous_matches)

C3_Witness ==
  /\ query = QuerySatelliteImagery
  /\ res.outcome = "AmbiguousCollectionError"
  /\ res.exit = "early"

KwSentinel1 == <<"s","e","n","t","i","n","e","l","-","1">>

KwSentinel == <<"s","e","n","t","i","n","e","l">>

KwSar == <<"s","a","r">>

KwRadar == <<"r","a","d","a","r">>

\* a query whose only matched dataset keywords are sentinel-1 (with its
\* substring sentinel), sar or radar
SarOnly(q) ==
  LET m == MatchedKeywords(q)
  IN /\ m \cap {KwSentinel1, KwSar, KwRadar} # {}
     /\ m \subseteq {KwSentinel1, KwSentinel, KwSar, KwRadar}
     /\ KwSentinel \in m => KwSentinel1 \in m

\* C4: every query whose only matched dataset keywords are sentinel-1, sar
\* or radar resolves to sentinel-1-rtc without an error.
C4_SarPrompts ==
  (Resolved /\ SarOnly(query)) =>
     /\ res.outcome = "return"
     /\ res.collection = "sentinel-1-rtc"

\* a specific keyword in the sense of C5 as stated: any non-ambiguous
\* keyword of COLLECTION_INFO or COLLECTION_KEYWORDS
HasAnySpecificKeyword(q) ==
  \E k \in (InfoKeywords \cup FlatKeywords) \ AmbiguousKeys : Contains(k, LowerStr(q))

\* a specific keyword in the sense of the code: a non-ambiguous key of
\* COLLECTION_KEYWORDS
HasFlatSpecificKeyword(q) ==
  \E k \in FlatKeywords \ AmbiguousKeys : Contains(k, LowerStr(q))

\* C5 as stated: the early ambiguous exit is taken iff the query has an
\* ambiguous keyword and no specific keyword from either table.
C5_Original ==
  Resolved =>
     (res.exit = "early" <=>
        HasAmbiguousKeyword(query) /\ ~ HasAnySpecificKeyword(query))

\* C5 amended: the early ambiguous exit is taken iff the query has an
\* ambiguous keyword and no non-ambiguous key of the flat COLLECTION_KEYWORDS
\* table; a keyword listed only in COLLECTION_INFO does not prevent it.  With
\* a flat keyword next to an ambiguous one the query is scored.
C5_EarlyExit ==
  Resolved =>
     /\ res.exit = "early" <=>
          HasAmbiguousKeyword(query) /\ ~ HasFlatSpecificKeyword(query)
     /\ (HasAmbiguousKeyword(query) /\ HasFlatSpecificKeyword(query)) =>
          res.exit \in {"clear", "close", "single"}

\* the early exit taken although a COLLECTION_INFO keyword is in the query
C5_Witness ==
  /\ res.exit = "early"
  /\ HasAnySpecificKeyword(query)

ScoreIn(r, c) == DictGet(r.matched_collections, c, 0)

TopScore(r) ==
  CHOOSE t \in {r.matched_collections[i].score : i \in 1..Len(r.matched_collections)} :
    \A i \in 1..Len(r.matched_collections) : r.matched_collections[i].score <= t

FirstIndex(xs, x) == CHOOSE i \in 1..Len(xs) : xs[i] = x /\ \A j \in 1..(i - 1) : xs[j] # x

\* C6: an AmbiguousCollectionError carries 1 to 3 suggestions with distinct
\* ids, each the id, name and description of a registry dataset; those of the
\* early exit are the first distinct ids of the matched ambiguous lists in
\* first-seen order; those of the close-match exit start with the top scorer,
\* are in non-increasing score order and score at least 0.6 times the top.
C6_Suggestions ==
  (res.outcome = "AmbiguousCollectionError") =>
     LET ids == SuggestionIds(res)
         n == Len(ids)
         seen == res.ambiguous_matches
     IN /\ 1 <= n /\ n <= 3
        /\ \A i, j \in 1..n : i # j => ids[i] # ids[j]
        /\ \A i \in 1..n : \E k \in 1..Len(COLLECTION_INFO) :
              res.suggestions[i] =
                 [collection |-> COLLECTION_INFO[k].id,
                  name |-> COLLECTION_INFO[k].name,
                  description |-> COLLECTION_INFO[k].description]
        /\ res.exit \in {"early", "close"}
        /\ res.exit = "early" =>
              /\ \A i \in 1..n : ids[i] \in Range(seen)
              /\ \A i, j \in 1..n :
                    i < j => FirstIndex(seen, ids[i]) < FirstIndex(seen, ids[j])
              /\ \A x \in Range(seen) \ Range(ids) :
                    n = 3 /\ FirstIndex(seen, x) > FirstIndex(seen, ids[n])
        /\ res.exit = "close" =>
              /\ ScoreIn(res, ids[1]) = TopScore(res)
              /\ \A i \in 1..(n - 1) : ScoreIn(res, ids[i]) >= ScoreIn(res, ids[i + 1])
              /\ \A i \in 1..n : 10 * ScoreIn(res, ids[i]) >= 6 * TopScore(res)

\* the close-match exit with more close matches than it may suggest
C6_Witness ==
  /\ res.exit = "close"
  /\ Len(res.suggestions) = 3
  /\ Cardinality({i \in 1..Len(res.matched_collections) :
                    10 * res.matched_collections[i].score >= 6 * TopScore(res)}) > 3

\* dataset c gets a score above 0 from q: a keyword of its COLLECTION_INFO
\* list, or a non-ambiguous COLLECTION_KEYWORDS key mapped to it, is in q
ScoresAboveZero(q, c) ==
  \/ \E i \in 1..Len(COLLECTION_INFO) :
        /\ COLLECTION_INFO[i].id = c
        /\ \E k \in Range(COLLECTION_INFO[i].keywords) : Contains(k, LowerStr(q))
  \/ \E i \in 1..Len(COLLECTION_KEYWORDS) :
        /\ COLLECTION_KEYWORDS[i].collection = c
        /\ COLLECTION_KEYWORDS[i].keyword \notin AmbiguousKeys
        /\ Contains(COLLECTION_KEYWORDS[i].keyword, LowerStr(q))

AllIds == InfoIds \cup {COLLECTION_KEYWORDS[i].collection : i \in 1..Len(COLLECTION_KEYWORDS)}

\* C7: NoCollectionMatchError is raised exactly when the query has no
\* ambiguous keyword and no dataset scores above 0; it carries
\* AVAILABLE_CATEGORIES unchanged and no dataset id is returned.
C7_NoMatch ==
  Resolved =>
     /\ res.outcome = "NoCollectionMatchError" <=>
          /\ ~ HasAmbiguousKeyword(query)
          /\ \A c \in AllIds : ~ ScoresAboveZero(query, c)
     /\ res.outcome = "NoCollectionMatchError" =>
          /\ res.available_categories = AVAILABLE_CATEGORIES
          /\ Len(res.available_categories) = 6
          /\ res.collection = "none"
          /\ res.suggestions = <<>>

C7_Witness ==
  /\ res.outcome = "NoCollectionMatchError"
  /\ query # <<>>

\* the highest score among the entries other than one top entry
SecondScore(r) ==
  LET m == r.matched_collections
      top == CHOOSE i \in 1..Len(m) : m[i].score = TopScore(r)
  IN CHOOSE s \in {m[j].score : j \in (1..Len(m)) \ {top}} :
       \A j \in (1..Len(m)) \ {top} : m[j].score <= s

CloseCount(r) ==
  Cardinality({i \in 1..Len(r.matched_collections) :
                 10 * r.matched_collections[i].score >= 6 * TopScore(r)})

Scored == Resolved /\ res.exit # "early" /\ res.matched_collections # <<>>

\* C8: when scoring is reached and some dataset scores above 0, the outcome
\* is decided by the two highest scores: the top scorer is returned when it
\* is the only scored dataset or its score exceeds 1.5 times the second
\* highest; otherwise it is returned if it alone scores at least 0.6 times
\* the top, and AmbiguousCollectionError is raised if several do.  A returned
\* dataset always has the maximum score.
C8_TwoHighest ==
  Scored =>
     LET n == Len(res.matched_collections)
         top == TopScore(res)
         clear == n = 1 \/ 2 * top > 3 * SecondScore(res)
     IN /\ clear => res.outcome = "return"
        /\ (~ clear /\ CloseCount(res) = 1) => res.outcome = "return"
        /\ (~ clear /\ CloseCount(res) > 1) =>
              res.outcome = "AmbiguousCollectionError"
        /\ res.outcome = "return" => ScoreIn(res, res.collection) = top
        /\ res.outcome \in {"return", "AmbiguousCollectionError"}

\* a winner returned over a lower-scoring runner-up
C8_Witness ==
  /\ Scored
  /\ res.outcome = "return"
  /\ Len(res.matched_collections) > 1
  /\ res.matched_collections[1].score < TopScore(res)

IdSentinel2 == <<"s","e","n","t","i","n","e","l","-","2","-","l","2","a">>

\* C9: a query containing the id sentinel-2-l2a gets the 100-point exact-id
\* bonus for sentinel-2-l2a and resolves to sentinel-2-l2a.
C9_ExactId ==
  (Resolved /\ Contains(IdSentinel2, LowerStr(query))) =>
     /\ score_collection_match(LowerStr(query), "sentinel-2-l2a") >= 100
     /\ res.outcome = "return"
     /\ res.collection = "sentinel-2-l2a"

(***************************************************************************)
(* Properties of validate_bbox (specification SpecBbox)                    *)
(***************************************************************************)
\* C10: validate_bbox raises for every input that has not exactly 4
\* elements, or has west >= east, or south >= north, or a longitude outside
\* [-180, 180], or a latitude outside [-90, 90]; every other input is
\* returned with the same four values in the same order, and validating the
\* returned box gives the same box again.
C10_ValidateBbox ==
  (vb.outcome # "pending") =>
     /\ vb.outcome = "ValueError" <=> InvalidBox(bbox_in)
     /\ ~ InvalidBox(bbox_in) => (vb.outcome = "return" /\ vb.value = bbox_in)
     /\ vb2.outcome # "pending" => (vb2.outcome = "return" /\ vb2.value = vb.value)

\* the whole globe validated twice
C10_Witness ==
  /\ bbox_in = <<-18000, -9000, 18000, 9000>>
  /\ vb.outcome = "return"
  /\ vb2.outcome = "return"

(***************************************************************************)
(* Further properties of download_data (specification Spec)                *)
(***************************************************************************)
\* the call got past the AOI gate and the time-range defaulting
Planned ==
  \/ pc \in {"dispatch", "raster_search", "raster_load", "raster_save",
             "zarr_load", "zarr_save"}
  \/ pc = "done" /\ data_type # "none"

\* C11: every box handed on to the area computation, the planning or the
\* fetch satisfies the AOI constraints (west < east, south < north, longitudes
\* within [-180, 180], latitudes within [-90, 90]), whether the caller
\* supplied it, the geocoder answered it or the geocoding cache held it.
C11_ValidAoi == bbox # <<>> => ~ InvalidBox(bbox)

\* C12: without a time_range argument the window is the 7 days up to the day
\* of the call, used_default_time_range is true and every successful result
\* carries the default-window warning; with a time_range argument the fetch
\* gets that very range, used_default_time_range is false and no
\* default-window warning is emitted.
C12_DefaultTimeRange ==
  Planned =>
    /\ IF args.time_range = NoTimeRange
       THEN /\ time_range.end - time_range.start = 7
            /\ time_range.end >= 0
            /\ time_range.end <= now \div SECONDS_PER_DAY
            /\ used_default_time_range
            /\ \E i \in 1..Len(warnings_list) : warnings_list[i] = "default_time_range"
       ELSE /\ time_range = args.time_range
            /\ ~ used_default_time_range
            /\ \A i \in 1..Len(warnings_list) : warnings_list[i] # "default_time_range"
    /\ (io.searches > 0 \/ io.store_opens > 0) => plan.datetime = time_range
    /\ outcome.status = "return" =>
          /\ outcome.warnings = warnings_list
          /\ ("default_time_range" \in Range(outcome.warnings))
                <=> (args.time_range = NoTimeRange)

\* a call without time_range made after midnight has succeeded
C12_Witness ==
  /\ pc = "done"
  /\ outcome.status = "return"
  /\ args.time_range = NoTimeRange
  /\ time_range = [start |-> -6, end |-> 1]
  /\ "default_time_range" \in Range(outcome.warnings)

\* areas around every threshold of the scale table, in thousandths of a km2
AreaSamples ==
  {a \in {Km2(t) + d : t \in {0, 10, 50, 100, 500, 1000}, d \in {-1, 0, 1}} :
     a >= 0}
  \cup {calculate_bbox_area_km2(b) : b \in ValidBoxes}

\* C13: for a raster request that reaches planning the scale factor is one
\* of 1, 2, 4, 8, 16, no smaller than the factor of any smaller area and no
\* larger than the factor of any larger area, and the planned resolution is
\* the native resolution times the factor, never below the native resolution.
C13_ResolutionScale ==
  plan.resolution_scale # 0 =>
    /\ data_type = "raster"
    /\ plan.resolution_scale \in {1, 2, 4, 8, 16}
    /\ \A a \in AreaSamples :
          /\ a <= aoi_area => resolution_scale(a) <= plan.resolution_scale
          /\ a >= aoi_area => resolution_scale(a) >= plan.resolution_scale
    /\ plan.resolution = native_resolution(collection) * plan.resolution_scale
    /\ plan.resolution >= native_resolution(collection)
    /\ native_resolution(collection) > 0

\* a 102 km2 request for elevation data is planned at 8 times 0.00027 degrees
C13_Witness ==
  /\ plan.resolution_scale = 8
  /\ collection = "cop-dem-glo-30"
  /\ plan.resolution = 2160
  /\ bbox = BoxLosAngeles

Searched == io.searches > 0

\* C14 as stated: the raster search carries the cloud-cover filter exactly
\* when the resolved dataset's category is optical.
C14_Original ==
  Searched =>
    ((plan.cloud_cover # NO_CLOUD_FILTER) <=> (InfoOf(collection).category = "optical"))

\* C14: the raster search carries the cloud-cover filter, with the caller's
\* max_cloud_cover, exactly when the resolved dataset is sentinel-2-l2a or
\* landsat-c2-l2; naip and every dataset that is not optical are searched
\* without it whatever max_cloud_cover is.
C14_CloudFilter ==
  Searched =>
    IF collection \in {"sentinel-2-l2a", "landsat-c2-l2"}
    THEN plan.cloud_cover = args.max_cloud_cover
    ELSE plan.cloud_cover = NO_CLOUD_FILTER

\* naip has been searched without a cloud-cover filter
C14_Witness ==
  /\ Searched
  /\ collection = "naip"
  /\ InfoOf(collection).category = "optical"
  /\ plan.cloud_cover = NO_CLOUD_FILTER
  /\ args.max_cloud_cover = 50

\* C15: when the raster search finds no item the call ends with
\* NoDataFoundError after exactly one search, with no pixel load and no file
\* write; the error carries a suggestion exactly when the caller gave no
\* time_range, and the suggestion recommends 14 days.
C15_NoData ==
  /\ io.searches <= 1
  /\ (Searched /\ items = 0 /\ outcome.reason # "search_failed") =>
        outcome.status = "NoDataFoundError"
  /\ outcome.status = "NoDataFoundError" =>
        /\ pc = "done"
        /\ items = 0
        /\ io.searches = 1
        /\ io.pixel_loads = 0
        /\ io.file_writes = 0
        /\ outcome.has_suggestion <=> (args.time_range = NoTimeRange)
        /\ outcome.suggested_days = IF outcome.has_suggestion THEN 14 ELSE 0

\* a call with a time range of the caller's has found nothing
C15_Witness ==
  /\ outcome.status = "NoDataFoundError"
  /\ args.time_range = CallerTimeRange
  /\ ~ outcome.has_suggestion

\* C16: every dataset the resolver returns is fetched by the strategy of its
\* type: raster by catalog search and raster load, zarr by the store path,
\* vector by the partitioned vector read; none ends as an unsupported type.
C16_Dispatch ==
  data_type # "none" =>
    /\ data_type = get_collection_type(CallResolution[args.query].collection)
    /\ data_type \in {"raster", "zarr", "vector"}
    /\ outcome.reason # "unsupported_data_type"
    /\ data_type = "raster" => io.store_opens = 0
    /\ data_type = "zarr" => io.searches = 0 /\ io.pixel_loads = 0

(***************************************************************************)
(* core/vector_utils.py: the parallel GeoParquet fetch of                  *)
(* query_geoparquet_by_quadkey (mode "quadkey": one listing per quadkey    *)
(* partition) and query_geoparquet_from_items (mode "items": one listing   *)
(* per catalog item).                                                      *)
(***************************************************************************)
MAX_PARALLEL_DOWNLOADS == 8

\* how many more files than pool workers the large partition holds
PoolExtra == 1

NumPoolFiles == MAX_PARALLEL_DOWNLOADS + PoolExtra

\* what fs.ls answers for a partition: q0 holds two Parquet files and a
\* marker file, q1 two Parquet files, pool more files than the pool has
\* workers; the catalog item "bare" has no data asset
PartitionParts(q) ==
  CASE q = "q0" -> <<[file |-> 1, parquet |-> TRUE],
                     [file |-> 2, parquet |-> TRUE],
                     [file |-> 90, parquet |-> FALSE]>>
    [] q = "q1" -> <<[file |-> 3, parquet |-> TRUE],
                     [file |-> 0, parquet |-> TRUE]>>
    [] q = "pool" -> [i \in 1..NumPoolFiles |->
                        [file |-> 10 + i, parquet |-> TRUE]]
    [] OTHER -> <<>>

HasDataAsset(q) == q # "bare"

\* the rows of each file and whether their geometry intersects the box:
\* file 0 is an empty table, file 2 lies outside the box, files 1 and 3 hold
\* the same building
FileRows(f) ==
  CASE f = 0 -> <<>>
    [] f = 1 -> <<[id |-> 1, inside |-> TRUE], [id |-> 2, inside |-> FALSE]>>
    [] f = 2 -> <<[id |-> 3, inside |-> FALSE]>>
    [] f = 3 -> <<[id |-> 1, inside |-> TRUE]>>
    [] OTHER -> <<[id |-> f, inside |-> TRUE]>>

\* the marker file is not a Parquet file: reading it raises
Readable(f) == f < 90

Intersects(row) == row.inside

\* _read_and_filter_parquet: the filtered frame, or <<>> for None (read
\* error, empty table, nothing intersects)
read_and_filter_parquet(file, read_fails) ==
  IF file \in read_fails \/ ~ Readable(file)
  THEN <<>>
  ELSE IF Len(FileRows(file)) = 0
       THEN <<>>
       ELSE SelectSeq(FileRows(file), Intersects)

RECURSIVE BagOfSeq(_)
\* the rows of a frame as a multiset
BagOfSeq(xs) ==
  IF xs = <<>> THEN EmptyBag
  ELSE SetToBag({Head(xs)}) (+) BagOfSeq(Tail(xs))

IsParquet(part) == part.parquet

PartFile(parts) == [i \in 1..Len(parts) |-> parts[i].file]

SmallQuadkeyLists == {<<>>, <<"q0">>, <<"q0", "q1">>}

SmallItemLists == {<<>>, <<"q0">>, <<"q0", "bare", "q1">>}

\* the read failures of the large partition: its first two files
PoolReadFails == {11, 12}

\* the calls: every listing failure and every read failure on the small
\* partitions, and the large partition
VectorCalls ==
  {[mode |-> "quadkey", partitions |-> qs, storage_options |-> TRUE,
    listing_fails |-> lf, read_fails |-> rf] :
      qs \in SmallQuadkeyLists, lf \in SUBSET {"q0", "q1"},
      rf \in SUBSET {1, 2, 3}}
  \cup
  {[mode |-> "items", partitions |-> qs, storage_options |-> so,
    listing_fails |-> lf, read_fails |-> rf] :
      qs \in SmallItemLists, so \in BOOLEAN, lf \in SUBSET {"q0", "q1"},
      rf \in SUBSET {1, 2, 3}}
  \cup
  {[mode |-> "quadkey", partitions |-> <<"pool">>, storage_options |-> TRUE,
    listing_fails |-> {}, read_fails |-> PoolReadFails]}

InitVector ==
  /\ vin \in {c \in VectorCalls :
                \A q \in c.listing_fails :
                   \E i \in 1..Len(c.partitions) : c.partitions[i] = q}
  /\ vpc = "enter" /\ qi = 1
  /\ all_parquet_files = <<>> /\ tasks = <<>> /\ all_gdfs = EmptyBag
  /\ reads = EmptyBag /\ vresult = NoVectorResult
  /\ ResolverIdle /\ BboxIdle /\ CallIdle /\ ToolIdle /\ LookupIdle

EmptyFrame == [status |-> "return", rows |-> EmptyBag]

\* lines 151-153 and 239-240: nothing to look up
VEnter ==
  /\ vpc = "enter"
  /\ IF vin.partitions = <<>>
        \/ (vin.mode = "items" /\ ~ vin.storage_options)
     THEN vresult' = EmptyFrame /\ vpc' = "done"
     ELSE vpc' = "list" /\ UNCHANGED vresult
  /\ UNCHANGED <<vin, qi, all_parquet_files, tasks, all_gdfs, reads,
                 resolverVars, bboxVars, callVars, toolVars, lookupVars>>

\* Variant of VList without the try/except round fs.ls.
VListRaising ==
  /\ vpc = "list"
  /\ qi <= Len(vin.partitions)
  /\ LET q == vin.partitions[qi]
         parts == PartitionParts(q)
         kept == IF vin.mode = "quadkey" THEN SelectSeq(parts, IsParquet)
                 ELSE parts
     IN IF vin.mode = "items" /\ ~ HasDataAsset(q)
        THEN UNCHANGED <<all_parquet_files, vresult, vpc>>
        ELSE IF q \in vin.listing_fails
             THEN /\ vresult' = [status |-> "raise", rows |-> EmptyBag]
                  /\ vpc' = "done"
                  /\ UNCHANGED all_parquet_files
             ELSE /\ all_parquet_files' = all_parquet_files \o PartFile(kept)
                  /\ UNCHANGED <<vresult, vpc>>
  /\ qi' = qi + 1
  /\ UNCHANGED <<vin, tasks, all_gdfs, reads, resolverVars, bboxVars,
                 callVars, toolVars, lookupVars>>

\* lines 168-175 and 253-262: one turn of the listing loop.  A listing that
\* fails, and an item without data asset, add nothing.
VList ==
  /\ vpc = "list"
  /\ qi <= Len(vin.partitions)
  /\ LET q == vin.partitions[qi]
         parts == PartitionParts(q)
         kept == IF vin.mode = "quadkey" THEN SelectSeq(parts, IsParquet)
                 ELSE parts
     IN all_parquet_files' =
          IF (vin.mode = "items" /\ ~ HasDataAsset(q))
             \/ q \in vin.listing_fails
          THEN all_parquet_files
          ELSE all_parquet_files \o PartFile(kept)
  /\ qi' = qi + 1
  /\ UNCHANGED <<vin, vpc, tasks, all_gdfs, reads, vresult, resolverVars,
                 bboxVars, callVars, toolVars, lookupVars>>

\* lines 177-178 and 264-265: the listing loop is over
VListed ==
  /\ vpc = "list"
  /\ qi > Len(vin.partitions)
  /\ IF all_parquet_files = <<>>
     THEN vresult' = EmptyFrame /\ vpc' = "done"
     ELSE vpc' = "submit" /\ UNCHANGED vresult
  /\ UNCHANGED <<vin, qi, all_parquet_files, tasks, all_gdfs, reads,
                 resolverVars, bboxVars, callVars, toolVars, lookupVars>>

\* lines 196-198: executor.submit queues one future per file; after the
\* last one the caller enters the as_completed loop
VSubmit ==
  /\ vpc = "submit"
  /\ Len(tasks) < Len(all_parquet_files)
  /\ tasks' = Append(tasks, [file |-> all_parquet_files[Len(tasks) + 1],
                             status |-> "pending", result |-> <<>>])
  /\ vpc' = IF Len(tasks) + 1 = Len(all_parquet_files) THEN "collect"
            ELSE "submit"
  /\ UNCHANGED <<vin, qi, all_parquet_files, all_gdfs, reads, vresult,
                 resolverVars, bboxVars, callVars, toolVars, lookupVars>>

Running == Cardinality({i \in DOMAIN tasks : tasks[i].status = "running"})

\* Variant of VStart for a pool without a worker limit.
VStartUnbounded(i) ==
  /\ tasks[i].status = "pending"
  /\ \A j \in 1..(i - 1) : tasks[j].status # "pending"
  /\ tasks' = [tasks EXCEPT ![i].status = "running"]
  /\ reads' = reads (+) SetToBag({tasks[i].file})
  /\ UNCHANGED <<vin, vpc, qi, all_parquet_files, all_gdfs, vresult,
                 resolverVars, bboxVars, callVars, toolVars, lookupVars>>

\* line 195: a worker of ThreadPoolExecutor(max_workers=8) takes the oldest
\* queued future and starts reading its file
VStart(i) ==
  /\ tasks[i].status = "pending"
  /\ \A j \in 1..(i - 1) : tasks[j].status # "pending"
  /\ Running < MAX_PARALLEL_DOWNLOADS
  /\ tasks' = [tasks EXCEPT ![i].status = "running"]
  /\ reads' = reads (+) SetToBag({tasks[i].file})
  /\ UNCHANGED <<vin, vpc, qi, all_parquet_files, all_gdfs, vresult,
                 resolverVars, bboxVars, callVars, toolVars, lookupVars>>

\* lines 192-193: the worker's read_file returns
VFinish(i) ==
  /\ tasks[i].status = "running"
  /\ tasks' = [tasks EXCEPT
                 ![i].status = "done",
                 ![i].result = read_and_filter_parquet(tasks[i].file,
                                                       vin.read_fails)]
  /\ UNCHANGED <<vin, vpc, qi, all_parquet_files, all_gdfs, reads, vresult,
                 resolverVars, bboxVars, callVars, toolVars, lookupVars>>

\* lines 200-206: as_completed hands the caller a future that has
\* completed; its frame is appended unless it is None.  all_gdfs is kept as
\* the multiset of the rows of its frames.
VCollect(i) ==
  /\ vpc = "collect"
  /\ tasks[i].status = "done"
  /\ tasks' = [tasks EXCEPT ![i].status = "collected"]
  /\ all_gdfs' = IF tasks[i].result # <<>> /\ Len(tasks[i].result) > 0
                 THEN all_gdfs (+) BagOfSeq(tasks[i].result)
                 ELSE all_gdfs
  /\ UNCHANGED <<vin, vpc, qi, all_parquet_files, reads, vresult,
                 resolverVars, bboxVars, callVars, toolVars, lookupVars>>

\* Variant of VReturn that leaves the loop without waiting for the futures
\* still queued or running.
VReturnEarly ==
  /\ vpc = "collect"
  /\ \A i \in DOMAIN tasks : tasks[i].status # "done"
  /\ vresult' = [status |-> "return", rows |-> all_gdfs]
  /\ vpc' = "done"
  /\ UNCHANGED <<vin, qi, all_parquet_files, tasks, all_gdfs, reads,
                 resolverVars, bboxVars, callVars, toolVars, lookupVars>>

\* lines 206-211: as_completed is exhausted, the with block has shut the
\* pool down, and the frames are concatenated (or the empty frame returned)
VReturn ==
  /\ vpc = "collect"
  /\ \A i \in DOMAIN tasks : tasks[i].status = "collected"
  /\ vresult' = [status |-> "return", rows |-> all_gdfs]
  /\ vpc' = "done"
  /\ UNCHANGED <<vin, qi, all_parquet_files, tasks, all_gdfs, reads,
                 resolverVars, bboxVars, callVars, toolVars, lookupVars>>

NextVector ==
  \/ VEnter
  \/ VList
  \/ VListed
  \/ VSubmit
  \/ \E i \in DOMAIN tasks : VStart(i)
  \/ \E i \in DOMAIN tasks : VFinish(i)
  \/ \E i \in DOMAIN tasks : VCollect(i)
  \/ VReturn

SpecVector == InitVector /\ [][NextVector]_vars

(***************************************************************************)
(* Properties of the parallel GeoParquet fetch (specification SpecVector)  *)
(***************************************************************************)
\* the files of the partitions whose listing is asked for and succeeds
ListedFiles(v) ==
  {part.file :
     part \in UNION {Range(PartitionParts(v.partitions[i])) :
                       i \in {j \in 1..Len(v.partitions) :
                                /\ v.partitions[j] \notin v.listing_fails
                                /\ v.mode = "items" => HasDataAsset(v.partitions[j])}}}
  \ (IF v.mode = "quadkey" THEN {90} ELSE {})

\* the listed files whose read succeeds
SuccessfulReads(v) ==
  IF v.partitions = <<>> \/ (v.mode = "items" /\ ~ v.storage_options)
  THEN {}
  ELSE {f \in ListedFiles(v) : f \notin v.read_fails /\ f # 90}

\* how often file f holds the row r
Occurrences(r, f) ==
  Cardinality({i \in 1..Len(FileRows(f)) : FileRows(f)[i] = r})

RECURSIVE OccurrencesIn(_, _)
OccurrencesIn(r, files) ==
  IF files = {} THEN 0
  ELSE LET f == CHOOSE x \in files : TRUE
       IN Occurrences(r, f) + OccurrencesIn(r, files \ {f})

\* the rows inside the box of the reads that succeed, with multiplicity
UnionOfReads(v) ==
  LET candidates == UNION {Range(FileRows(f)) : f \in SuccessfulReads(v)}
      rows == {r \in candidates : r.inside}
  IN [r \in rows |-> OccurrencesIn(r, SuccessfulReads(v))]

\* C17: the fetch never raises because a listing or a read failed; whatever
\* listings and reads fail and in whatever order the tasks complete, it
\* returns exactly the rows inside the box of the reads that succeeded, as a
\* multiset, and the empty frame when every read fails.
C17_UnionOfReads ==
  /\ vresult.status \in {"pending", "return"}
  /\ vpc = "done" =>
        /\ vresult.status = "return"
        /\ vresult.rows = UnionOfReads(vin)
        /\ SuccessfulReads(vin) = {} => vresult.rows = EmptyBag

\* one read failed, and the building that two partitions hold is returned
\* twice
C17_Witness ==
  /\ vpc = "done"
  /\ vin.read_fails = {2}
  /\ vin.listing_fails = {}
  /\ CopiesIn([id |-> 1, inside |-> TRUE], vresult.rows) = 2

\* C19: at most 8 reads are in progress at any moment; every enumerated
\* file has exactly one task and is read exactly once, failed or not; and
\* the result of a task is that of its own file alone.
C19_BoundedPool ==
  /\ Running <= 8
  /\ Len(tasks) <= Len(all_parquet_files)
  /\ \A i \in DOMAIN tasks : tasks[i].file = all_parquet_files[i]
  /\ \A i, j \in DOMAIN all_parquet_files :
        all_parquet_files[i] = all_parquet_files[j] => i = j
  /\ \A f \in BagToSet(reads) : CopiesIn(f, reads) = 1
  /\ \A i \in DOMAIN tasks :
        (tasks[i].status # "pending") <=> BagIn(tasks[i].file, reads)
  /\ \A i \in DOMAIN tasks :
        tasks[i].status \in {"done", "collected"} =>
           tasks[i].result =
              IF tasks[i].file \in vin.read_fails \/ tasks[i].file = 90
              THEN <<>>
              ELSE SelectSeq(FileRows(tasks[i].file), Intersects)
  /\ (vresult.status = "return" /\ all_parquet_files # <<>>) =>
        /\ Len(tasks) = Len(all_parquet_files)
        /\ \A i \in DOMAIN all_parquet_files :
              CopiesIn(all_parquet_files[i], reads) = 1

\* eight reads are in progress and a ninth file waits for a worker
C19_Witness ==
  /\ Running = 8
  /\ \E i \in DOMAIN tasks : tasks[i].status = "pending"

AnyUnfinished ==
  \E i \in DOMAIN tasks : tasks[i].status \in {"pending", "running"}

\* C20 as stated: nothing is appended to the accumulator while a read task
\* is pending or running, and the function returns only after every task
\* has terminated.
C20_Original ==
  /\ [][all_gdfs' # all_gdfs => ~ AnyUnfinished]_vars
  /\ [](vresult.status = "return" => ~ AnyUnfinished)

RECURSIVE CollectedRows(_)
\* the rows of the frames of the first n tasks that have been collected
CollectedRows(n) ==
  IF n = 0 THEN EmptyBag
  ELSE IF tasks[n].status = "collected"
       THEN BagOfSeq(tasks[n].result) (+) CollectedRows(n - 1)
       ELSE CollectedRows(n - 1)

\* C20: the caller appends the frame of a task once that task has
\* completed, also while other tasks are pending or running, and never
\* before every file has been submitted; only the concatenation and the
\* return wait until every task has terminated.
C20_Barrier ==
  /\ all_gdfs = CollectedRows(Len(tasks))
  /\ all_gdfs # EmptyBag => Len(tasks) = Len(all_parquet_files)
  /\ vresult.status = "return" =>
        /\ ~ AnyUnfinished
        /\ \A i \in DOMAIN tasks : tasks[i].status = "collected"
        /\ Len(tasks) = Len(all_parquet_files)

\* a frame has been appended while another read is still running
C20_Witness ==
  /\ all_gdfs # EmptyBag
  /\ \E i \in DOMAIN tasks : tasks[i].status = "running"

(***************************************************************************)
(* tools/download_geometries.py and download_geometries_tool of server.py. *)
(* The fetch (_download_quadkey_collection, _download_stac_collection) is  *)
(* taken by what it hands back: a frame of some rows, an empty frame for   *)
(* one of the reasons it can be empty, or an exception of the catalog      *)
(* client.                                                                 *)
(***************************************************************************)
QUADKEY_COLLECTIONS == {"ms-buildings"}

GeometryCollections == {"ms-buildings", "us-census"}

GeometryAois ==
  {[kind |-> "list", box |-> b, place |-> <<>>] :
      b \in {BoxSeattle, BoxLosAngeles, BoxUnderCap,
              <<-10035, 2563, -10025, 2573>>} \cup InvalidBoxes}
  \cup {[kind |-> "str", box |-> <<>>, place |-> p] : p \in Places}
  \cup {[kind |-> "other", box |-> <<>>, place |-> <<>>]}

\* _get_regions_for_bbox; coordinates are hundredths of a degree
get_regions_for_bbox(b) ==
  LET west == b[1]  south == b[2]  east == b[3]  north == b[4]
      north_america ==
        -17000 < west /\ west < -5000 /\ 2400 < north /\ north < 7200
      found ==
        (IF north_america /\ south > 2400 /\ north < 5000 /\ west > -13000
         THEN <<"United States">> ELSE <<>>)
        \o (IF north_america /\ north > 4100 /\ west < -5200
            THEN <<"Canada">> ELSE <<>>)
        \o (IF north_america /\ south < 3300 /\ west > -11800 /\ east < -8600
            THEN <<"Mexico">> ELSE <<>>)
  IN IF found = <<>> THEN <<"United States">> ELSE found

\* why a fetch comes back empty
EmptyCauses == {"no_item", "no_files", "reads_failed", "nothing_intersects"}

RowCounts == {1, 2}

FetchedFrames ==
  {[cause |-> c, count |-> 0] : c \in EmptyCauses}
  \cup {[cause |-> "rows", count |-> n] : n \in RowCounts}

\* the cache file is empty, or holds a fresh answer for the place
InitGeometries ==
  /\ gpc = "aoi"
  /\ gargs \in [collection : GeometryCollections, aoi : GeometryAois]
  /\ gbbox = <<>> /\ gdf = NoFrame /\ goutcome = NoToolOutcome
  /\ gresponse = "none" /\ regions = <<>>
  /\ ResolverIdle /\ BboxIdle /\ VectorIdle /\ LookupIdle
  /\ pc = "idle" /\ args = NoArgs /\ collection = "none" /\ bbox = <<>>
  /\ aoi_area = 0 /\ warnings_list = <<>> /\ time_range = NoTimeRange
  /\ used_default_time_range = FALSE /\ data_type = "none" /\ items = 0
  /\ plan = NoPlan /\ outcome = NoOutcome /\ io = NoIO /\ response = <<>>
  /\ now = 0 /\ calls = 0
  /\ \/ cache = [k \in CacheKeys |-> NoEntry]
     \/ cache = [k \in CacheKeys |->
                   [bbox |-> BoxSeattle, place_name |-> <<"S","e","a","t","t","l","e">>,
                    timestamp |-> 0]]

GeomRaise(status, reason) == [status |-> status, reason |-> reason, count |-> 0]

\* lines 61-62: bbox = validate_bbox(aoi)
GeomAoiBox ==
  /\ gpc = "aoi"
  /\ gargs.aoi.kind = "list"
  /\ LET v == validate_bbox(gargs.aoi.box)
     IN IF v.outcome = "return"
        THEN gbbox' = v.value /\ gpc' = "fetch" /\ UNCHANGED goutcome
        ELSE /\ goutcome' = GeomRaise("ValueError", "invalid_bbox")
             /\ gpc' = "raised"
             /\ UNCHANGED gbbox
  /\ UNCHANGED <<gargs, regions, gdf, gresponse, resolverVars, bboxVars, callVars,
                 vectorVars, lookupVars>>

\* lines 59-60: bbox = place_to_bbox(aoi), answered from the cache
GeomAoiCached ==
  /\ gpc = "aoi"
  /\ gargs.aoi.kind = "str"
  /\ LET key == cache_key(gargs.aoi.place)
     IN /\ cache[key] # NoEntry
        /\ is_cache_valid(cache[key], now)
        /\ gbbox' = cache[key].bbox
  /\ gpc' = "fetch"
  /\ UNCHANGED <<gargs, regions, gdf, goutcome, gresponse, resolverVars, bboxVars,
                 callVars, vectorVars, lookupVars>>

\* lines 59-60: bbox = place_to_bbox(aoi) on a cache miss
GeomAoiGeocoded ==
  /\ gpc = "aoi"
  /\ gargs.aoi.kind = "str"
  /\ LET key == cache_key(gargs.aoi.place)
     IN /\ ~ (cache[key] # NoEntry /\ is_cache_valid(cache[key], now))
        /\ \/ \E bb \in GeocoderAnswers :
                LET box == <<bb[3], bb[1], bb[4], bb[2]>>
                IN /\ gbbox' = box
                   /\ cache' = [cache EXCEPT ![key] =
                                  [bbox |-> box, place_name |-> gargs.aoi.place,
                                   timestamp |-> now]]
                   /\ gpc' = "fetch"
                   /\ UNCHANGED goutcome
           \/ /\ goutcome' = GeomRaise("ValueError", "geocode_failed")
              /\ gpc' = "raised"
              /\ UNCHANGED <<gbbox, cache>>
  /\ UNCHANGED <<response, gargs, regions, gdf, gresponse, resolverVars, bboxVars, vectorVars,
                 pc, args, collection, bbox, aoi_area, warnings_list,
                 time_range, used_default_time_range, data_type, items, plan,
                 outcome, io, now, calls, lookupVars>>

\* lines 63-64: neither a string nor a list
GeomAoiOther ==
  /\ gpc = "aoi"
  /\ gargs.aoi.kind = "other"
  /\ goutcome' = GeomRaise("TypeError", "aoi_type")
  /\ gpc' = "raised"
  /\ UNCHANGED <<gargs, regions, gbbox, gdf, gresponse, resolverVars, bboxVars,
                 callVars, vectorVars, lookupVars>>

\* lines 66-70: gdf = _download_quadkey_collection(...) for a collection of
\* QUADKEY_COLLECTIONS, _download_stac_collection(...) for any other; the
\* catalog client may raise
GeomFetch ==
  /\ gpc = "fetch"
  /\ regions' = IF gargs.collection \in QUADKEY_COLLECTIONS
                THEN get_regions_for_bbox(gbbox)
                ELSE regions
  /\ \/ \E f \in FetchedFrames :
          /\ gdf' = f
          /\ gpc' = "check"
          /\ UNCHANGED goutcome
     \/ /\ goutcome' = GeomRaise("Exception", "catalog_error")
        /\ gpc' = "raised"
        /\ UNCHANGED gdf
  /\ UNCHANGED <<gargs, gbbox, gresponse, resolverVars, bboxVars, callVars,
                 vectorVars, lookupVars>>

\* lines 72-104: an empty frame raises ValueError; any other is saved,
\* drawn and returned with its row count
GeomCheck ==
  /\ gpc = "check"
  /\ IF gdf.count = 0
     THEN /\ goutcome' = GeomRaise("ValueError", "no_geometries")
          /\ gpc' = "raised"
     ELSE /\ goutcome' = [status |-> "return", reason |-> "saved",
                          count |-> gdf.count]
          /\ gpc' = "returned"
  /\ UNCHANGED <<gargs, regions, gbbox, gdf, gresponse, resolverVars, bboxVars,
                 callVars, vectorVars, lookupVars>>

\* server.py lines 157-179: the tool answers "Successfully downloaded
\* geometries" on a result and "Error downloading geometries" on any
\* exception
GeomRespond ==
  /\ gpc \in {"returned", "raised"}
  /\ gresponse' = IF gpc = "returned" THEN "success" ELSE "error"
  /\ gpc' = "done"
  /\ UNCHANGED <<gargs, regions, gbbox, gdf, goutcome, resolverVars, bboxVars,
                 callVars, vectorVars, lookupVars>>

NextGeometries ==
  \/ GeomAoiBox
  \/ GeomAoiCached
  \/ GeomAoiGeocoded
  \/ GeomAoiOther
  \/ GeomFetch
  \/ GeomCheck
  \/ GeomRespond

SpecGeometries == InitGeometries /\ [][NextGeometries]_vars

(***************************************************************************)
(* Properties of download_geometries (specification SpecGeometries)        *)
(***************************************************************************)
\* C18: when the fetch yields no row, whatever the reason, download_geometries
\* ends with a no-data outcome: not the kind of failure an invalid AOI ends
\* with, and not answered by the tool as a download error.
C18_NoDataOutcome ==
  (gdf.cause \in EmptyCauses /\ gpc \in {"raised", "returned", "done"}) =>
     /\ goutcome.status \notin {"ValueError", "TypeError", "Exception"}
     /\ gpc = "done" => gresponse # "error"

\* generous extents [west, south, east, north], in hundredths of a degree,
\* of the territories the region buckets are named after (the United
\* States with Alaska and Hawaii)
RegionExtent(region) ==
  CASE region = "United States" -> <<-18000, 1800, -6500, 7200>>
    [] region = "Canada" -> <<-14200, 4100, -5200, 8400>>
    [] region = "Mexico" -> <<-11900, 1400, -8600, 3300>>

\* the box and the extent of the region have a point in common
CanContain(region, b) ==
  LET e == RegionExtent(region)
  IN /\ b[1] <= e[3] /\ b[3] >= e[1]
     /\ b[2] <= e[4] /\ b[4] >= e[2]

\* C28: once the ms-buildings fetch has selected its region buckets for a
\* valid AOI, they are a non-empty list of distinct regions among 'United
\* States', 'Canada' and 'Mexico', and the AOI lies within the extent of
\* every selected region.
C28_Regions ==
  (gargs.collection \in QUADKEY_COLLECTIONS
   /\ gpc \in {"check", "returned", "done"} /\ gdf # NoFrame) =>
    /\ regions # <<>>
    /\ \A i, j \in 1..Len(regions) : i # j => regions[i] # regions[j]
    /\ \A i \in 1..Len(regions) :
          /\ regions[i] \in {"United States", "Canada", "Mexico"}
          /\ CanContain(regions[i], gbbox)

\* C23: the raw and visualization paths of a request are a function of the
\* output directory, the dataset id and the rounded box, so that a request
\* for the same dataset and directory with another box gets another raw
\* path and another visualization path (stated for a returned raster
\* result and every other accepted box).
C23_DistinctPaths ==
  (outcome.status = "return" /\ data_type = "raster") =>
    /\ outcome.raw = raster_paths(collection, bbox).raw
    /\ \A b \in ValidBoxes :
         b # bbox =>
           /\ raster_paths(collection, b).raw # outcome.raw
           /\ raster_paths(collection, b).visualization # outcome.visualization

\* C24: download_data for a Zarr climate dataset on the regional AOI
\* [-125, 32, -110, 42] with an explicit time range is not rejected for the
\* size of the AOI.
C24_LargeClimateAoi ==
  (/\ pc = "done"
   /\ get_collection_type(collection) = "zarr"
   /\ args.aoi.kind = "list" /\ args.aoi.box = BoxWesternUS
   /\ args.time_range = CallerTimeRange) =>
    ~ (outcome.status = "ValueError" /\ outcome.reason = "aoi_too_large")

\* C25: _create_zarr_visualizations, applied to the loaded subset of a Zarr
\* request, always returns a mapping with the key 'visualization', and
\* with the key 'animation' if and only if the first data variable has a
\* time dimension ('time' or 'day') with more than 3 time steps; the paths
\* carry the collection id.
C25_Visualizations ==
  (pc = "done" /\ data_type = "zarr" /\ io.file_writes > 0) =>
    /\ outcome.status = "return"
    /\ outcome.visualization = <<collection, "-visualization.jpg">>
    /\ outcome.animation \in {<<>>, <<collection, "-animation.gif">>}
    /\ (outcome.animation # <<>>) <=>
         (plan.time_dim \in {"time", "day"} /\ plan.time_steps > 3)

\* the pair (search items, scale factor) that the comments of the two
\* threshold tables give for an area
DocumentedBand(a) ==
  CASE a < Km2(10) -> <<1, 1>>
    [] a >= Km2(10) /\ a < Km2(50) -> <<2, 2>>
    [] a >= Km2(50) /\ a < Km2(100) -> <<5, 4>>
    [] a >= Km2(100) /\ a < Km2(500) -> <<10, 8>>
    [] OTHER -> <<20, 16>>

\* C26: the search item limit and the resolution scale factor come from the
\* same area bands: below 10 km2 (1, 1x), from 10 to below 50 (2, 2x), from
\* 50 to below 100 (5, 4x), from 100 to below 500 (10, 8x), from 500 to 1000
\* (20, 16x), for the area of every planned raster request and for every
\* accepted area around and at the band edges.
C26_SameBands ==
  plan.resolution_scale # 0 =>
    /\ <<plan.search_limit, plan.resolution_scale>> = DocumentedBand(aoi_area)
    /\ \A a \in AreaSamples :
         a <= Km2(AOI_REJECT_THRESHOLD_KM2) =>
           <<get_adaptive_search_limit(a), resolution_scale(a)>>
             = DocumentedBand(a)

\* the entries of COLLECTION_TYPES for an id
TypeEntries(id) ==
  {i \in 1..Len(COLLECTION_TYPES) : COLLECTION_TYPES[i].collection = id}

\* an id with an entry in COLLECTION_INFO and exactly one entry in
\* COLLECTION_TYPES, whose type get_collection_type answers
Registered(id) ==
  /\ id \in InfoIds
  /\ Cardinality(TypeEntries(id)) = 1
  /\ \A i \in TypeEntries(id) :
        get_collection_type(id) = COLLECTION_TYPES[i].type

Answers(o, r) ==
  /\ Len(r) = 1
  /\ r[1].type = "text"
  /\ o.status = "return" =>
        /\ r[1].head = "Successfully downloaded data:"
        /\ ("Warnings:" \in Range(r[1].blocks)) <=> (o.warnings # <<>>)
        /\ "Warnings:" \in Range(r[1].blocks) => r[1].lines = o.warnings
  /\ o.status = "NoDataFoundError" =>
        /\ r[1].head = "No data found:"
        /\ ("Suggested action:" \in Range(r[1].blocks)) <=> o.has_suggestion
  /\ o.status = "AmbiguousCollectionError" =>
        /\ r[1].head = "Ambiguous query:"
        /\ r[1].lines = [i \in 1..Len(o.suggestions) |->
                           o.suggestions[i].collection]
  /\ o.status = "NoCollectionMatchError" =>
        /\ r[1].head = "Unknown data type:"
        /\ r[1].lines = AVAILABLE_CATEGORIES
  /\ o.status \notin {"return", "NoDataFoundError", "AmbiguousCollectionError",
                       "NoCollectionMatchError"} =>
        /\ r[1].head = "Error downloading data:"
        /\ r[1].blocks = <<>>

MaxLookups == 3

\* the geocoder's raw answer for a place: Paris, or else Seattle
Geocode(place_name) ==
  IF cache_key(place_name) = <<"p","a","r","i","s">>
  THEN RawBoundingBox(<<222, 4881, 247, 4890>>)
  ELSE RawBoundingBox(BoxSeattle)

\* cache[key] = entry on a dict: a present key keeps its position
CacheSet(d, key, entry) ==
  IF \E i \in 1..Len(d) : d[i].key = key
  THEN [i \in 1..Len(d) |->
          IF d[i].key = key THEN [key |-> key, entry |-> entry] ELSE d[i]]
  ELSE Append(d, [key |-> key, entry |-> entry])

\* json.dump(cache, f, indent=2): what the document consists of
json_dump(d) ==
  [n \in 1..(2 * Len(d) + 1) |->
     IF n = 2 * Len(d) + 1
     THEN [kind |-> "end", key |-> <<>>, entry |-> NoEntry]
     ELSE IF n % 2 = 1
          THEN [kind |-> "key", key |-> d[(n + 1) \div 2].key, entry |-> NoEntry]
          ELSE [kind |-> "value", key |-> <<>>, entry |-> d[n \div 2].entry]]

\* the object of the first n key/value pairs of a well-formed document; a
\* repeated key keeps its first position and its last value
RECURSIVE json_object(_, _)
json_object(cells, n) ==
  IF n = 0 THEN <<>>
  ELSE CacheSet(json_object(cells, n - 1), cells[2 * n - 1].key,
                cells[2 * n].entry)

\* _load_cache: the parsed file, or {} when the file is missing, empty or
\* not a JSON document
load_cache(file) ==
  LET ends == Len(file) % 2 = 1 /\ file[Len(file)].kind = "end"
      pairs == \A n \in 1..(Len(file) - 1) :
                 file[n].kind = IF n % 2 = 1 THEN "key" ELSE "value"
  IN IF ends /\ pairs THEN json_object(file, (Len(file) - 1) \div 2) ELSE <<>>

\* the file is missing, or holds an answer for Seattle stored at time 0,
\* which is up to MaxTicks * 12 hours ago; the lookups of one run fall into
\* the same second
InitCache ==
  /\ ResolverIdle /\ BboxIdle /\ VectorIdle /\ ToolIdle
  /\ pc = "idle" /\ args = NoArgs /\ collection = "none" /\ bbox = <<>>
  /\ aoi_area = 0 /\ warnings_list = <<>> /\ time_range = NoTimeRange
  /\ used_default_time_range = FALSE /\ data_type = "none" /\ items = 0
  /\ plan = NoPlan /\ outcome = NoOutcome /\ io = NoIO /\ response = <<>>
  /\ cache = [k \in CacheKeys |-> NoEntry] /\ calls = 0
  /\ now \in {k * TICK_SECONDS : k \in 0..MaxTicks}
  /\ lookups = [t \in Callers |-> NoLookup]
  /\ cache_file \in
       {<<>>,
        json_dump(<<[key |-> <<"s","e","a","t","t","l","e">>,
                     entry |-> [bbox |-> BoxSeattle,
                                place_name |-> <<"S","e","a","t","t","l","e">>,
                                timestamp |-> 0]]>>)}

\* a caller invokes place_to_bbox(place_name, use_cache); line 142.  The
\* field overlapped records that some call of the caller ran while a call
\* of another caller was in progress.
PlaceCall(t) ==
  /\ lookups[t].pc \in {"idle", "done"}
  /\ calls < MaxLookups
  /\ calls' = calls + 1
  /\ \E p \in Places \cup {<<"P","a","r","i","s">>}, u \in BOOLEAN :
       LET InFlight(o) == lookups[o].pc \notin {"idle", "done"}
           others == \E o \in Callers \ {t} : InFlight(o)
       IN lookups' =
            [o \in Callers |->
               IF o = t
               THEN [NoLookup EXCEPT !.pc = IF u THEN "lookup" ELSE "geocode",
                                     !.place_name = p, !.use_cache = u,
                                     !.overlapped =
                                        others \/ lookups[t].overlapped]
               ELSE IF InFlight(o)
                    THEN [lookups[o] EXCEPT !.overlapped = TRUE]
                    ELSE lookups[o]]
  /\ UNCHANGED <<response, pc, args, collection, bbox, aoi_area, warnings_list,
                 time_range, used_default_time_range, data_type, items, plan,
                 outcome, io, cache, now, cache_file, resolverVars, bboxVars,
                 vectorVars, toolVars>>

\* lines 145-148: the cache is tried first (the loaded cache is dropped at
\* the end of the block)
PlaceLookup(t) ==
  /\ lookups[t].pc = "lookup"
  /\ LET loaded == load_cache(cache_file)
         key == cache_key(lookups[t].place_name)
         hit == \E i \in 1..Len(loaded) :
                  /\ loaded[i].key = key
                  /\ is_cache_valid(loaded[i].entry, now)
         found == loaded[CHOOSE i \in 1..Len(loaded) : loaded[i].key = key]
     IN lookups' =
          [lookups EXCEPT
             ![t].io.cache_reads = @ + 1,
             ![t].bbox = IF hit THEN found.entry.bbox ELSE @,
             ![t].pc = IF hit THEN "done" ELSE "geocode"]
  /\ UNCHANGED <<cache_file, resolverVars, bboxVars, callVars, vectorVars,
                 toolVars>>

\* lines 151-158 and 170-177: the geocoder is called; it answers with a
\* bounding box or with nothing
PlaceGeocode(t) ==
  /\ lookups[t].pc = "geocode"
  /\ \/ LET bb == Geocode(lookups[t].place_name)
        IN lookups' =
             [lookups EXCEPT
                ![t].io.geocoder = @ + 1,
                ![t].bbox = <<bb[3], bb[1], bb[4], bb[2]>>,
                ![t].pc = IF lookups[t].use_cache THEN "update" ELSE "done"]
     \/ lookups' = [lookups EXCEPT ![t].io.geocoder = @ + 1,
                                   ![t].raised = "ValueError",
                                   ![t].pc = "done"]
  /\ UNCHANGED <<cache_file, resolverVars, bboxVars, callVars, vectorVars,
                 toolVars>>

\* Variant of PlaceUpdate that stores the new entry into an empty cache
\* instead of the cache loaded from the file.
PlaceUpdateFresh(t) ==
  /\ lookups[t].pc = "update"
  /\ lookups' =
       [lookups EXCEPT
          ![t].cache = CacheSet(<<>>, cache_key(lookups[t].place_name),
                                [bbox |-> lookups[t].bbox,
                                 place_name |-> lookups[t].place_name,
                                 timestamp |-> now]),
          ![t].io.cache_reads = @ + 1,
          ![t].pc = "open"]
  /\ UNCHANGED <<cache_file, resolverVars, bboxVars, callVars, vectorVars,
                 toolVars>>

\* lines 161-167: the cache is loaded again and the entry is set
PlaceUpdate(t) ==
  /\ lookups[t].pc = "update"
  /\ lookups' =
       [lookups EXCEPT
          ![t].cache = CacheSet(load_cache(cache_file),
                                cache_key(lookups[t].place_name),
                                [bbox |-> lookups[t].bbox,
                                 place_name |-> lookups[t].place_name,
                                 timestamp |-> now]),
          ![t].io.cache_reads = @ + 1,
          ![t].pc = "open"]
  /\ UNCHANGED <<cache_file, resolverVars, bboxVars, callVars, vectorVars,
                 toolVars>>

\* _save_cache line 67: open(cache_path, "w") truncates the file
SaveOpen(t) ==
  /\ lookups[t].pc = "open"
  /\ cache_file' = <<>>
  /\ lookups' = [lookups EXCEPT ![t].io.cache_writes = @ + 1,
                                ![t].written = 0,
                                ![t].pc = "write"]
  /\ UNCHANGED <<resolverVars, bboxVars, callVars, vectorVars, toolVars>>

\* _save_cache line 68: the next cell of the document goes to the file at
\* this caller's own offset; what lies beyond it stays, a gap before it is
\* a hole; after the last cell the file is closed, line 170 returns and the
\* in-memory cache is discarded
SaveWrite(t) ==
  /\ lookups[t].pc = "write"
  /\ LET doc == json_dump(lookups[t].cache)
         at == lookups[t].written + 1
         size == IF Len(cache_file) > at THEN Len(cache_file) ELSE at
     IN /\ cache_file' =
             [n \in 1..size |->
                IF n = at THEN doc[at]
                ELSE IF n <= Len(cache_file) THEN cache_file[n]
                ELSE [kind |-> "hole", key |-> <<>>, entry |-> NoEntry]]
        /\ lookups' =
             IF at = Len(doc)
             THEN [lookups EXCEPT ![t].cache = <<>>, ![t].written = 0,
                                  ![t].pc = "done"]
             ELSE [lookups EXCEPT ![t].written = at]
  /\ UNCHANGED <<resolverVars, bboxVars, callVars, vectorVars, toolVars>>

NextCache ==
  \/ \E t \in Callers : PlaceCall(t)
  \/ \E t \in Callers : PlaceLookup(t)
  \/ \E t \in Callers : PlaceGeocode(t)
  \/ \E t \in Callers : PlaceUpdate(t)
  \/ \E t \in Callers : SaveOpen(t)
  \/ \E t \in Callers : SaveWrite(t)

SpecCache == InitCache /\ [][NextCache]_vars

(***************************************************************************)
(* Properties of place_to_bbox and its cache                               *)
(***************************************************************************)
\* the box place_to_bbox builds from the geocoder's answer for the place
AnswerFor(place_name) ==
  LET bb == Geocode(place_name) IN <<bb[3], bb[1], bb[4], bb[2]>>

Finished(t) == lookups[t].pc = "done"

\* C21: under every interleaving of concurrent place_to_bbox calls on the
\* shared cache file, a call that has ended either returned a box the
\* geocoder produced for its own normalized place name or raised the
\* geocoding failure after asking the geocoder; it never returns another
\* place's box and never fails for the state of the cache.
C21_OwnBox ==
  \A t \in Callers :
    Finished(t) =>
      \/ /\ lookups[t].raised = "none"
         /\ lookups[t].bbox = AnswerFor(lookups[t].place_name)
      \/ /\ lookups[t].raised = "ValueError"
         /\ lookups[t].io.geocoder = 1

\* the caller is the only one that has called place_to_bbox so far
Solo(t) == \A o \in Callers \ {t} : lookups[o].pc = "idle"

\* the entries of the cache file stored under the key
Stored(file, key) ==
  {e \in Range(load_cache(file)) : e.key = key}

\* the file holds an entry for the key that is younger than 24 hours
Young(file, key) ==
  \E e \in Stored(file, key) : now - e.entry.timestamp < CACHE_TTL_SECONDS

AllStored ==
  /\ \A t \in Callers :
       /\ Finished(t) /\ lookups[t].raised = "none" /\ lookups[t].use_cache
  /\ \A t, o \in Callers :
       t # o => cache_key(lookups[t].place_name) # cache_key(lookups[o].place_name)

\* the cache file holds a young entry with the place's box for each caller
EachHeld ==
  \A t \in Callers :
    \E e \in Stored(cache_file, cache_key(lookups[t].place_name)) :
      /\ e.entry.bbox = AnswerFor(lookups[t].place_name)
      /\ is_cache_valid(e.entry, now)

====
